---- MODULE Spec2Model ----
(***************************************************************************)
(* State-machine model of the SFL narrative editor: the attachment list of *)
(* the Architect page (handleFileUpload / removeAttachment / handleSave),  *)
(* its persona analysis (handlePersonaFileUpload), its test execution      *)
(* (handleTest) and structure generation (handleAutoGenerate), the         *)
(* persisted store, the capabilities of GeminiService (listModels,         *)
(* executePrompt, executePromptStream, generateSFLFromGoal,                *)
(* analyzeFilesForTenor, processFile) and the prompt compiler              *)
(* compileSFLPrompt.                                                       *)
(*                                                                         *)
(* A JavaScript string is a sequence of tokens: a token is either one of   *)
(* the literal pieces of a template in the source or one opaque word of    *)
(* user / provider text.  The empty string is << >>.  An absent object     *)
(* property (undefined) is a key that is not in the DOMAIN of the record.  *)
(***************************************************************************)
EXTENDS Integers, Sequences, FiniteSets, TLC

\* ------------------------------------------------------------------------
\* Bounds of the model
\* ------------------------------------------------------------------------
MaxUuid == 2
MaxBatch == 2
MaxPrompts == 2
MaxAtt == 2
MaxModels == 2
MaxClock == 2

\* null (editingPromptId of App, promptId of Architect)
Null == 0

\* ------------------------------------------------------------------------
\* Strings
\* ------------------------------------------------------------------------
NL == "\n"

\* Array.prototype.join on an array of strings
RECURSIVE JoinMutReversed(_, _)
JoinMutReversed(parts, sep) ==
  IF Len(parts) = 0 THEN << >>
  ELSE IF Len(parts) = 1 THEN parts[1]
  ELSE JoinMutReversed(Tail(parts), sep) \o sep \o parts[1]
RECURSIVE Join(_, _)
Join(parts, sep) ==
  IF Len(parts) = 0 THEN << >>
  ELSE IF Len(parts) = 1 THEN parts[1]
  ELSE parts[1] \o sep \o Join(Tail(parts), sep)

\* String.prototype.trim: white space is stripped at both ends
Whitespace == {NL, " "}

RECURSIVE TrimStart(_)
TrimStart(s) ==
  IF s # << >> /\ Head(s) \in Whitespace THEN TrimStart(Tail(s)) ELSE s

RECURSIVE TrimEnd(_)
TrimEnd(s) ==
  IF s # << >> /\ s[Len(s)] \in Whitespace
  THEN TrimEnd(SubSeq(s, 1, Len(s) - 1)) ELSE s

Trim(s) == TrimEnd(TrimStart(s))

\* JavaScript truthiness of an optional string property
Truthy(rec, key) == key \in DOMAIN rec /\ rec[key] # << >>

\* ------------------------------------------------------------------------
\* types.ts
\* ------------------------------------------------------------------------
AttachmentTypes == {"audio", "video", "image", "text", "pdf", "document", "other"}
AttachmentStatuses == {"pending", "processing", "done", "error"}

DEFAULT_FIELD ==
  [topic |-> << >>, taskType |-> << >>, domainSpecifics |-> << >>, keywords |-> << >>]

DEFAULT_TENOR ==
  [aiPersona |-> <<"Helpful Assistant">>, targetAudience |-> << >>,
   desiredTone |-> <<"Neutral">>, interpersonalStance |-> <<"Supportive">>]

DEFAULT_MODE ==
  [outputFormat |-> <<"Markdown">>, rhetoricalStructure |-> <<"Standard">>,
   lengthConstraint |-> <<"Moderate">>, textualDirectives |-> << >>]

\* ------------------------------------------------------------------------
\* compileSFLPrompt (services/geminiService.ts)
\* ------------------------------------------------------------------------
\* .filter(a => a.status === 'done' && a.analysis)
EligibleMutAnalysisOnly(a) == Truthy(a, "analysis")
Eligible(a) == a.status = "done" /\ Truthy(a, "analysis")

\* .map(a => `\n### Attachment: ${a.name} (${a.type})\n${a.analysis}`)
AttachmentBlock(a) ==
  <<NL, "### Attachment: ">> \o a.name \o <<" (", a.type, ")", NL>> \o a.analysis

attachmentContext(attachments) ==
  LET kept == SelectSeq(attachments, Eligible)
  IN  Join([i \in 1..Len(kept) |-> AttachmentBlock(kept[i])], <<NL>>)

\* ${attachmentContext ? `\n# REFERENCE MATERIAL\n${attachmentContext}\n` : ''}
ReferenceHeading == "# REFERENCE MATERIAL"

ReferenceSectionMutAlways(ctx) ==
  <<NL, ReferenceHeading, NL>> \o ctx \o <<NL>>
ReferenceSection(ctx) ==
  IF ctx # << >> THEN <<NL, ReferenceHeading, NL>> \o ctx \o <<NL>> ELSE << >>

\* tenor.targetAudience.join(', ') raises a TypeError when the property is
\* not an array
AudienceRaisesMutEmpty(tenor) ==
  "targetAudience" \notin DOMAIN tenor \/ tenor.targetAudience = << >>
AudienceRaises(tenor) == "targetAudience" \notin DOMAIN tenor

TemplateBody(field, tenor, mode, attachments) ==
     <<NL, "# CONTEXT (Field)", NL>>
  \o <<"**Topic:** ">> \o field.topic \o <<NL>>
  \o <<"**Task:** ">> \o field.taskType \o <<NL>>
  \o <<"**Domain:** ">> \o field.domainSpecifics \o <<NL>>
  \o <<"**Keywords:** ">> \o field.keywords \o <<NL>>
  \o <<NL>>
  \o ReferenceSection(attachmentContext(attachments)) \o <<NL>>
  \o <<NL>>
  \o <<"# PERSONA & AUDIENCE (Tenor)", NL>>
  \o <<"**Role:** ">> \o tenor.aiPersona \o <<NL>>
  \o <<"**Audience:** ">> \o Join(tenor.targetAudience, <<", ">>) \o <<NL>>
  \o <<"**Tone:** ">> \o tenor.desiredTone \o <<NL>>
  \o <<"**Stance:** ">> \o tenor.interpersonalStance \o <<NL>>
  \o <<NL>>
  \o <<"# FORMAT & STRUCTURE (Mode)", NL>>
  \o <<"**Format:** ">> \o mode.outputFormat \o <<NL>>
  \o <<"**Structure:** ">> \o mode.rhetoricalStructure \o <<NL>>
  \o <<"**Length:** ">> \o mode.lengthConstraint \o <<NL>>
  \o <<"**Directives:** ">> \o mode.textualDirectives \o <<NL>>
  \o <<NL>>
  \o <<"---", NL>>
  \o <<"**INSTRUCTION:**", NL>>
  \o <<"Based on the framework and reference material above, please execute the task.", NL>>

\* The result of a call: a returned string, or a raised error
Returned(s) == [ok |-> TRUE, value |-> s]
Raised(e) == [ok |-> FALSE, error |-> e]

\* Thrown values: the TypeError of a property read on undefined, the
\* SyntaxError of JSON.parse, the error of a file that cannot be read, the
\* errors a provider call throws (Error objects with a message, and a thrown
\* value that has none)
TypeError ==
  [name |-> "TypeError",
   message |-> <<"Cannot read properties of undefined (reading 'join')">>]
ParseError == [name |-> "SyntaxError", message |-> <<"Unexpected token">>]
NotReadableError ==
  [name |-> "NotReadableError", message |-> <<"The requested file could not be read">>]
QuotaError == [name |-> "ApiError", message |-> <<"quota exhausted">>]
TokenCountError ==
  [name |-> "ApiError",
   message |-> <<"The input ", "token count exceeds", " the maximum number of tokens allowed">>]
BareError == [name |-> "AbortError"]
ProviderErrors == {QuotaError, TokenCountError, BareError}

\* `${error.message}`
ErrorMessage(e) == IF "message" \in DOMAIN e THEN e.message ELSE <<"undefined">>

compileSFLPrompt(field, tenor, mode, attachments) ==
  IF AudienceRaises(tenor) THEN Raised(TypeError)
  ELSE Returned(Trim(TemplateBody(field, tenor, mode, attachments)))

\* ------------------------------------------------------------------------
\* Files (the browser's File objects): name and declared MIME type are token
\* sequences, so that endsWith / startsWith / includes are tests on tokens
\* ------------------------------------------------------------------------
StartsWith(s, tok) == s # << >> /\ Head(s) = tok
EndsWith(s, tok) == s # << >> /\ s[Len(s)] = tok
Includes(s, tok) == \E i \in 1..Len(s) : s[i] = tok

\* String.prototype.toLowerCase on the tokens of a file name
LowerToken(tok) ==
  CASE tok = ".JSON" -> ".json"
    [] tok = ".JSONL" -> ".jsonl"
    [] tok = ".DOCX" -> ".docx"
    [] tok = ".MD" -> ".md"
    [] OTHER -> tok
ToLowerCaseMutIdentity(s) == s
ToLowerCase(s) == [i \in 1..Len(s) |-> LowerToken(s[i])]

DocxMime ==
  <<"application/", "vnd.openxmlformats-officedocument.", "wordprocessingml", ".document">>

JsonFile == [name |-> <<"data", ".json">>, type |-> <<"application/", "json">>,
             content |-> <<"{", " ", "}">>]
PngFile == [name |-> <<"pic", ".png">>, type |-> <<"image/", "png">>,
            content |-> <<"pixels">>]
TxtFile == [name |-> <<"note", ".txt">>, type |-> <<"text/", "plain">>,
            content |-> <<"hello">>]
EmptyFile == [name |-> <<"empty", ".log">>, type |-> << >>, content |-> << >>]

Files == {PngFile, TxtFile}

\* Files for the ingestion routes: extension and MIME type agree or disagree,
\* the content parses or does not
BadJsonFile == [name |-> <<"bad", ".json">>, type |-> <<"application/", "json">>,
                content |-> <<"{", "oops">>]
UpperJsonFile == [name |-> <<"PIC", ".JSON">>, type |-> <<"image/", "png">>,
                  content |-> <<"[", "1", "]">>]
JsonlFile == [name |-> <<"rows", ".jsonl">>, type |-> << >>,
              content |-> <<"{", " ", "}", NL, "[", "1", "]">>]
MixedJsonlFile == [name |-> <<"mixed", ".jsonl">>, type |-> <<"text/", "plain">>,
                   content |-> <<"1", NL, NL, "oops", NL, " ", NL, "{", "}", NL>>]
UpperJsonlFile == [name |-> <<"TALK", ".JSONL">>, type |-> <<"audio/", "mpeg">>,
                   content |-> <<"oops", " ", "again">>]
DocxFile == [name |-> <<"report", ".docx">>, type |-> DocxMime,
             content |-> <<"chapter">>]
DocxJsonFile == [name |-> <<"report", ".json">>, type |-> DocxMime,
                 content |-> <<"1">>]
DocxNamedFile == [name |-> <<"draft", ".DOCX">>, type |-> << >>,
                  content |-> <<"draft">>]
AudioFile == [name |-> <<"talk", ".mp3">>, type |-> <<"audio/", "mpeg">>,
              content |-> <<"sound">>]
VideoFile == [name |-> <<"clip", ".mp4">>, type |-> <<"video/", "mp4">>,
              content |-> <<"frames">>]
PdfFile == [name |-> <<"paper", ".pdf">>, type |-> <<"application/", "pdf">>,
            content |-> <<"pages">>]

IngestFiles ==
  { JsonFile, BadJsonFile, UpperJsonFile, JsonlFile, MixedJsonlFile, UpperJsonlFile,
    DocxFile, DocxJsonFile, DocxNamedFile, AudioFile, VideoFile, PngFile, PdfFile,
    TxtFile, EmptyFile,
    [name |-> <<"notes", ".md">>, type |-> << >>, content |-> <<"#", " ", "notes">>],
    [name |-> <<"NOTES", ".MD">>, type |-> << >>, content |-> <<"#", " ", "notes">>],
    [name |-> <<"song", ".md">>, type |-> <<"audio/", "mpeg">>, content |-> <<"sound">>] }

\* The non-empty file lists a file input hands to a change handler
RECURSIVE SeqsUpTo(_, _)
SeqsUpTo(S, n) ==
  IF n = 0 THEN {<< >>}
  ELSE LET shorter == SeqsUpTo(S, n - 1)
       IN  shorter \cup {Append(s, x) : s \in {t \in shorter : Len(t) = n - 1}, x \in S}

FileLists == SeqsUpTo(Files, MaxBatch)

\* ------------------------------------------------------------------------
\* GeminiService.processFile and its strategies
\* ------------------------------------------------------------------------
\* file.text(): the content, or a rejected read
FileText(file) == {Returned(file.content), Raised(NotReadableError)}

\* JSON.parse / JSON.stringify on token text: white space between the tokens
\* of a document is dropped by the parser
JSONValues == {<<"{", "}">>, <<"[", "]">>, <<"1">>, <<"[", "1", "]">>}
NotWhitespace(tok) == tok \notin Whitespace

\* The JSON documents a provider sends in its structured output mode, each
\* one token of reply text, with the value JSON.parse gives it
TenorDoc ==
  "{\"aiPersona\":\"Pirate\",\"targetAudience\":[\"sailors\"],\"desiredTone\":\"Gruff\",\"interpersonalStance\":\"Peer-to-peer\"}"
SFLDoc ==
  "{\"title\":\"Tide\",\"field\":{...},\"tenor\":{...},\"mode\":{...}}"
LooseDoc ==
  "{\"title\":\"Tide\",\"field\":{...},\"tenor\":{\"aiPersona\":\"Sailor\"},\"mode\":{...}}"
JSONDocuments ==
  (TenorDoc :> [aiPersona |-> <<"Pirate">>, targetAudience |-> << <<"sailors">> >>,
                desiredTone |-> <<"Gruff">>, interpersonalStance |-> <<"Peer-to-peer">>])
  @@ (SFLDoc :> [title |-> <<"Tide">>,
                 field |-> [topic |-> <<"sea">>, taskType |-> <<"narrate">>,
                            domainSpecifics |-> << >>, keywords |-> <<"salt">>],
                 tenor |-> [aiPersona |-> <<"Sailor">>, targetAudience |-> << <<"crew">> >>,
                            desiredTone |-> <<"Calm">>, interpersonalStance |-> <<"Peer">>],
                 mode |-> [outputFormat |-> <<"Prose">>, rhetoricalStructure |-> <<"Story">>,
                           lengthConstraint |-> <<"Short">>, textualDirectives |-> << >>]])
  @@ (LooseDoc :> [title |-> <<"Tide">>,
                   field |-> [topic |-> <<"sea">>, taskType |-> <<"narrate">>,
                              domainSpecifics |-> << >>, keywords |-> <<"salt">>],
                   tenor |-> [aiPersona |-> <<"Sailor">>],
                   mode |-> [outputFormat |-> <<"Prose">>, rhetoricalStructure |-> <<"Story">>,
                             lengthConstraint |-> <<"Short">>, textualDirectives |-> << >>]])

JSONParse(text) ==
  LET v == SelectSeq(text, NotWhitespace)
  IN  IF v \in JSONValues THEN Returned(v)
      ELSE IF Len(v) = 1 /\ v[1] \in DOMAIN JSONDocuments THEN Returned(JSONDocuments[v[1]])
      ELSE Raised(ParseError)
JSONStringify(v) == v

\* JSON.stringify(json, null, 2): the elements of a non-empty array stand on
\* lines of their own, indented by two blanks
JSONStringifyPretty(v) ==
  IF Len(v) > 2
  THEN <<v[1], NL>>
       \o Join([i \in 1..(Len(v) - 2) |-> <<" ", " ", v[i + 1]>>], <<",", NL>>)
       \o <<NL, v[Len(v)]>>
  ELSE v

processJSONMutRaises(file) ==
  { IF t.ok
    THEN LET json == JSONParse(t.value)
         IN  IF json.ok
             THEN Returned([analysis |-> JSONStringifyPretty(json.value)])
             ELSE Raised(json.error)
    ELSE Raised(t.error)
    : t \in FileText(file) }
processJSON(file) ==
  { IF t.ok
    THEN LET json == JSONParse(t.value)
         IN  IF json.ok
             THEN Returned([analysis |-> JSONStringifyPretty(json.value)])
             ELSE Returned([analysis |-> <<"Error parsing JSON: ">> \o ErrorMessage(json.error)])
    ELSE Returned([analysis |-> <<"Error parsing JSON: ">> \o ErrorMessage(t.error)])
    : t \in FileText(file) }

\* String.prototype.split on a separator token
RECURSIVE Split(_, _)
Split(text, sep) ==
  IF \A i \in 1..Len(text) : text[i] # sep THEN <<text>>
  ELSE LET k == CHOOSE i \in 1..Len(text) :
                  text[i] = sep /\ \A j \in 1..(i - 1) : text[j] # sep
       IN  <<SubSeq(text, 1, k - 1)>> \o Split(SubSeq(text, k + 1, Len(text)), sep)

\* text.split(/\r?\n/)
SplitLines(text) == Split(text, NL)

NonBlankMutAll(line) == TRUE
NonBlank(line) == Trim(line) # << >>

JSONLLine(lines, idx) ==
  LET json == JSONParse(lines[idx])
  IN  IF json.ok THEN JSONStringify(json.value)
      ELSE <<"[Line ", ToString(idx), "] Invalid JSON: ">> \o lines[idx]

processJSONL(file) ==
  { IF t.ok
    THEN LET lines == SelectSeq(SplitLines(t.value), NonBlank)
         IN  Returned([analysis |->
               Join([i \in 1..Len(lines) |-> JSONLLine(lines, i)], <<NL>>)])
    ELSE Returned([analysis |-> <<"Error processing JSONL: ">> \o ErrorMessage(t.error)])
    : t \in FileText(file) }

\* mammoth.extractRawText inside extractTextFromDOCX: a throw is caught and
\* yields ""
extractTextFromDOCX(file) == {file.content, << >>}

\* client.models.generateContent: the reply text (possibly empty), or a throw.
\* The reply names the request it answers, so that the call that was made
\* shows in its result
GenerateContent(model, instruction) ==
  {Returned(<<"reply to: ", model, instruction>>), Returned(<< >>)}
  \cup {Raised(e) : e \in ProviderErrors}

\* The common shape of processAudio / processVideo / processImage / processPDF
processMedia(model, instruction, fallback) ==
  { IF r.ok
    THEN Returned([analysis |-> IF r.value # << >> THEN r.value ELSE <<fallback>>])
    ELSE r
    : r \in GenerateContent(model, instruction) }

processAudio ==
  processMedia("gemini-2.5-flash", "Transcribe this audio verbatim.",
               "No transcription generated.")
processVideo ==
  processMedia("gemini-3-pro-preview", "Analyze this video and provide a comprehensive description of the visual and audio content, including any captions or spoken words.",
               "No analysis generated.")
processImage ==
  processMedia("gemini-3-pro-preview", "Analyze this image in detail. Describe the scene, objects, text, and mood.",
               "No analysis generated.")
processPDF ==
  processMedia("gemini-2.5-flash", "Analyze this document. Summarize the key points and extract the main content.",
               "No analysis generated.")

\* fileToBase64: reader.onload resolves, reader.onerror rejects
fileToBase64(file) == {Returned(file.content), Raised(NotReadableError)}

processTextFile(file) ==
  { IF t.ok THEN Returned([analysis |-> t.value]) ELSE t : t \in FileText(file) }

IsMedia(mimeType) ==
  \/ StartsWith(mimeType, "audio/")
  \/ StartsWith(mimeType, "video/")
  \/ StartsWith(mimeType, "image/")
  \/ mimeType = <<"application/", "pdf">>

\* The set of ways processFile(file) can settle: Returned({analysis}) is a
\* resolved promise, Raised(e) a rejected one
processFile(file) ==
  LET fileName == ToLowerCase(file.name)
      mimeType == file.type
  IN  IF EndsWith(fileName, ".json") THEN processJSON(file)
      ELSE IF EndsWith(fileName, ".jsonl") THEN processJSONL(file)
      ELSE IF mimeType = DocxMime
      THEN { Returned([analysis |-> IF text # << >> THEN text ELSE <<"Empty document.">>])
             : text \in extractTextFromDOCX(file) }
      ELSE IF IsMedia(mimeType)
      THEN { b \in fileToBase64(file) : ~b.ok }
           \cup (IF StartsWith(mimeType, "audio/") THEN processAudio
                 ELSE IF StartsWith(mimeType, "video/") THEN processVideo
                 ELSE IF StartsWith(mimeType, "image/") THEN processImage
                 ELSE processPDF)
      ELSE processTextFile(file)

\* ------------------------------------------------------------------------
\* The gateway capabilities of GeminiService.  The provider's behaviour in a
\* call is an argument (what models.list / generateContent /
\* generateContentStream does); a capability gives the requests it issued
\* (calls) and how it settled (result)
\* ------------------------------------------------------------------------
\* null where an object is expected
NoObject == [null |-> TRUE]

GatewayModels == {"gemini-3-pro-preview", "gemini-2.5-flash"}

\* client.models.list(): a throw, or a pager of models whose iteration ends
\* or throws after its items
ProviderModels ==
  { [name |-> <<"models/", "gemini", "-2.5-flash">>],
    [name |-> <<"models/", "embedding-001">>],
    [displayName |-> <<"unnamed">>] }
ModelListings ==
  {Raised(QuotaError)}
  \cup {Returned([items |-> l, fails |-> f]) :
          l \in SeqsUpTo(ProviderModels, MaxModels), f \in BOOLEAN}

FallbackModels ==
  << <<"gemini-3-pro-preview">>, <<"gemini-2.5-flash">>,
     <<"gemini-2.5-flash-thinking-preview-09-2025">> >>

\* if (model.name) modelNames.push(model.name), then
\* modelNames.filter(name => name && name.includes('gemini'))
CollectedNames(items) ==
  LET named == SelectSeq(items, LAMBDA model : Truthy(model, "name"))
  IN  SelectSeq([i \in 1..Len(named) |-> named[i].name],
                LAMBDA name : name # << >> /\ Includes(name, "gemini"))

listModelsMutPartial(listing) ==
  IF ~listing.ok THEN Returned(FallbackModels)
  ELSE Returned(CollectedNames(listing.value.items))
listModels(listing) ==
  IF ~listing.ok \/ listing.value.fails THEN Returned(FallbackModels)
  ELSE Returned(CollectedNames(listing.value.items))

\* Replies of generateContent to a text request and to a request in the
\* structured (JSON) output mode
TextReplies ==
  {Returned(<<"answer">>), Returned(<< >>)} \cup {Raised(e) : e \in ProviderErrors}
StructuredReplies ==
  {Returned(<<TenorDoc>>), Returned(<<SFLDoc>>), Returned(<<LooseDoc>>), Returned(<< >>),
   Returned(<<"oops">>)}
  \cup {Raised(e) : e \in ProviderErrors}

\* generateContentStream: a throw, or a stream of chunks that ends or throws
\* after them
NoError == [none |-> TRUE]
Streams ==
  {Raised(e) : e \in ProviderErrors}
  \cup {Returned([chunks |-> c, fails |-> f]) :
          c \in {<< >>, << <<"an">>, <<"swer">> >>}, f \in {NoError} \cup ProviderErrors}

\* if (!text) return null; return JSON.parse(text); with the catch that
\* throws what it caught
StructuredResult(reply) ==
  IF ~reply.ok THEN Raised(reply.error)
  ELSE IF reply.value = << >> THEN Returned(NoObject)
  ELSE LET json == JSONParse(reply.value)
       IN  IF json.ok THEN Returned(json.value) ELSE Raised(ParseError)

GoalInstruction(goal) ==
  <<"You are an expert in Systemic Functional Linguistics (SFL) applied to Prompt Engineering. Analyze the user's goal: \"">>
  \o goal \o <<"\". Construct a robust SFL framework for this request.">>

generateSFLFromGoal(goal, model, reply) ==
  [calls |-> <<[model |-> model, contents |-> GoalInstruction(goal),
                responseMimeType |-> "application/json"]>>,
   result |-> StructuredResult(reply)]

executePrompt(compiledPrompt, model, reply) ==
  [calls |-> <<[model |-> model, contents |-> compiledPrompt]>>,
   result |-> IF reply.ok
              THEN Returned(IF reply.value # << >> THEN reply.value
                            ELSE <<"No response generated.">>)
              ELSE Returned(<<"Error: ">> \o ErrorMessage(reply.error))]

\* The generator: what it yielded, and whether it returned or threw
executePromptStream(compiledPrompt, model, stream) ==
  [calls |-> <<[model |-> model, contents |-> compiledPrompt]>>,
   result |-> IF ~stream.ok THEN [ok |-> FALSE, error |-> stream.error, yielded |-> << >>]
              ELSE IF stream.value.fails # NoError
              THEN [ok |-> FALSE, error |-> stream.value.fails,
                    yielded |-> stream.value.chunks]
              ELSE [ok |-> TRUE, yielded |-> stream.value.chunks]]

\* extractTextFromFile: a read that fails gives ""
extractTextFromFile(file) ==
  IF EndsWith(ToLowerCase(file.name), ".docx") THEN extractTextFromDOCX(file)
  ELSE { IF t.ok THEN t.value ELSE << >> : t \in FileText(file) }

IsBinaryPart(mimeType) ==
  \/ StartsWith(mimeType, "image/")
  \/ StartsWith(mimeType, "audio/")
  \/ mimeType = <<"application/", "pdf">>

\* The loop of analyzeFilesForTenor over one file: the parts it pushes, or
\* the rejection of fileToBase64 that ends the call
PartsOfFile(file) ==
  IF IsBinaryPart(file.type)
  THEN { IF b.ok
         THEN Returned(<<[inlineData |-> [mimeType |-> file.type, data |-> b.value]]>>)
         ELSE b
         : b \in fileToBase64(file) }
  ELSE { Returned(IF t # << >>
                  THEN <<[text |-> <<"Content from ">> \o file.name \o <<":", NL>> \o t]>>
                  ELSE << >>)
         : t \in extractTextFromFile(file) }

RECURSIVE PartsOf(_)
PartsOf(files) ==
  IF files = << >> THEN {Returned(<< >>)}
  ELSE { IF ~h.ok THEN h
         ELSE IF ~r.ok THEN r
         ELSE Returned(h.value \o r.value)
         : h \in PartsOfFile(Head(files)), r \in PartsOf(Tail(files)) }

PersonaInstruction ==
  "Analyze the provided content (images, audio, or documents) to determine the author's or speaker's persona."

TokenLimitError(model) ==
  [name |-> "Error",
   message |-> <<"The uploaded files exceed the token limit for ", model,
                 ". Please try fewer files or use gemini-3-pro-preview.">>]

\* The catch of analyzeFilesForTenor
PersonaCatchMutRethrow(error, model) == error
PersonaCatch(error, model) ==
  IF Truthy(error, "message") /\ Includes(error.message, "token count exceeds")
  THEN TokenLimitError(model)
  ELSE error

\* The ways analyzeFilesForTenor(files, model) can go: the provider reply it
\* got ([called |-> FALSE] when it made no call), the requests it issued and how it
\* settled
analyzeFilesForTenor(files, model) ==
  LET loops == PartsOf(files)
      result(reply) ==
        LET r == StructuredResult(reply)
        IN  IF r.ok THEN r ELSE Raised(PersonaCatch(r.error, model))
  IN  {[reply |-> [called |-> FALSE], calls |-> << >>, result |-> p] : p \in {q \in loops : ~q.ok}}
      \cup {[reply |-> [called |-> FALSE], calls |-> << >>, result |-> Returned(NoObject)]
             : p \in {q \in loops : q.ok /\ q.value = << >>}}
      \cup {[reply |-> reply,
              calls |-> <<[model |-> model,
                           parts |-> Append(p.value, [text |-> <<PersonaInstruction>>]),
                           responseMimeType |-> "application/json"]>>,
              result |-> result(reply)]
             : p \in {q \in loops : q.ok /\ q.value # << >>},
               reply \in StructuredReplies}

\* ------------------------------------------------------------------------
\* Architect.handleFileUpload: the coarse type tag of a new attachment
\* ------------------------------------------------------------------------
InferTypeMutHeuristicsFirst(file) ==
  IF \/ Includes(file.type, "wordprocessingml")
     \/ Includes(file.type, "text/")
     \/ Includes(file.type, "json")
     \/ EndsWith(file.name, ".md")
  THEN "text"
  ELSE IF StartsWith(file.type, "audio/") THEN "audio"
  ELSE IF StartsWith(file.type, "video/") THEN "video"
  ELSE IF StartsWith(file.type, "image/") THEN "image"
  ELSE IF file.type = <<"application/", "pdf">> THEN "pdf"
  ELSE "other"
InferType(file) ==
  IF StartsWith(file.type, "audio/") THEN "audio"
  ELSE IF StartsWith(file.type, "video/") THEN "video"
  ELSE IF StartsWith(file.type, "image/") THEN "image"
  ELSE IF file.type = <<"application/", "pdf">> THEN "pdf"
  ELSE IF \/ Includes(file.type, "wordprocessingml")
          \/ Includes(file.type, "text/")
          \/ Includes(file.type, "json")
          \/ EndsWith(file.name, ".md")
       THEN "text"
  ELSE "other"

newAttachmentMutPending(id, file) ==
  [id |-> id, name |-> file.name, type |-> InferType(file), mimeType |-> file.type,
   content |-> << >>, status |-> "pending"]
newAttachment(id, file) ==
  [id |-> id, name |-> file.name, type |-> InferType(file), mimeType |-> file.type,
   content |-> << >>, status |-> "processing"]

\* ------------------------------------------------------------------------
\* State: App (activeView, editingPromptId), the mounted Architect (field,
\* tenor, mode, attachments), the handleFileUpload invocations suspended at
\* their await, the uuidv4 source and the store (prompts)
\* ------------------------------------------------------------------------
VARIABLES activeView, editingPromptId, field, tenor, mode, attachments,
          uploads, nextUuid, prompts, preview,
          isAnalyzingPersona, personaCalls, personaError, outcome, now,
          title, isTesting, testResponse, testRuns, isGenerating, generateCalls,
          activePromptId, preferences

vars == <<activeView, editingPromptId, field, tenor, mode, attachments,
          uploads, nextUuid, prompts, preview,
          isAnalyzingPersona, personaCalls, personaError, outcome, now,
          title, isTesting, testResponse, testRuns, isGenerating, generateCalls,
          activePromptId, preferences>>

\* The Architect's title; its test execution: the isTesting flag, the
\* displayed response and the invocations of handleTest suspended in their
\* for-await; its structure generation: the isGenerating flag and the
\* invocations of handleAutoGenerate suspended at their await
draftVars == <<title, isTesting, testResponse, testRuns, isGenerating, generateCalls>>

\* The store beside its prompt list: activePromptId and the preferences
\* (theme, primaryModel, personaModel, availableModels)
storeVars == <<activePromptId, preferences>>

UntitledNarrative == <<"Untitled Narrative">>
DefaultPreferences ==
  [theme |-> "light", primaryModel |-> "gemini-3-pro-preview",
   personaModel |-> "gemini-3-pro-preview", availableModels |-> << >>]

\* The persona analysis of the Architect: the isAnalyzingPersona flag, the
\* invocations of handlePersonaFileUpload suspended at their await, and the
\* error its catch block received last (NoError before the first)
personaVars == <<isAnalyzingPersona, personaCalls, personaError>>

\* The result of the last direct call of a gateway capability, and Date.now()
gatewayVars == <<outcome, now>>

NotCalled == [op |-> "none"]

\* The state of App, Architect and store that a gateway call leaves alone
appVars == <<activeView, editingPromptId, field, tenor, mode, attachments,
             uploads, nextUuid, prompts, preview>>

\* The live preview pane before its first render
NotRendered == [rendered |-> FALSE]

\* What the user types into the Topic and Target Audience inputs
Topics == {<< >>, <<"cats">>}
AudienceInputs == {<< >>, <<"kids", ",", " ", "parents">>}

\* { ...a, ...b }
Spread(a, b) == b @@ a

\* An invocation of handleFileUpload suspended at `await gemini.processFile`:
\* files[k] is being ingested under the attachment id `id`; mounted is FALSE
\* once the Architect that started it has been unmounted
Upload(files, k, id, mounted) == [files |-> files, k |-> k, id |-> id, mounted |-> mounted]

\* Files of mounted invocations that have no attachment id yet
FilesLeft(u) == IF u.mounted THEN Len(u.files) - u.k ELSE 0
RECURSIVE FilesLeftIn(_)
FilesLeftIn(S) ==
  IF S = {} THEN 0
  ELSE LET u == CHOOSE x \in S : TRUE IN FilesLeft(u) + FilesLeftIn(S \ {u})
UuidsReserved == FilesLeftIn(uploads)

Init ==
  /\ activeView = "library"
  /\ editingPromptId = Null
  /\ field = DEFAULT_FIELD
  /\ tenor = DEFAULT_TENOR
  /\ mode = DEFAULT_MODE
  /\ attachments = << >>
  /\ uploads = {}
  /\ nextUuid = 1
  /\ prompts = << >>
  /\ preview = NotRendered
  /\ isAnalyzingPersona = FALSE
  /\ personaCalls = {}
  /\ personaError = NoError
  /\ outcome = NotCalled
  /\ now = 1
  /\ title = UntitledNarrative
  /\ isTesting = FALSE
  /\ testResponse = << >>
  /\ testRuns = {}
  /\ isGenerating = FALSE
  /\ generateCalls = {}
  /\ activePromptId = Null
  /\ preferences = DefaultPreferences

\* Unmounting the Architect: its state is gone, and the invocations it started
\* keep running against the unmounted component
Unmount ==
  /\ field' = DEFAULT_FIELD
  /\ tenor' = DEFAULT_TENOR
  /\ mode' = DEFAULT_MODE
  /\ attachments' = << >>
  /\ uploads' = {Upload(u.files, u.k, u.id, FALSE) : u \in uploads}
  /\ isAnalyzingPersona' = FALSE
  /\ personaCalls' = {[c EXCEPT !.mounted = FALSE] : c \in personaCalls}
  /\ personaError' = personaError
  /\ title' = UntitledNarrative
  /\ isTesting' = FALSE
  /\ testResponse' = << >>
  /\ testRuns' = {[r EXCEPT !.mounted = FALSE] : r \in testRuns}
  /\ isGenerating' = FALSE
  /\ generateCalls' = {[c EXCEPT !.mounted = FALSE] : c \in generateCalls}

\* App.handleCreate: a fresh Architect with promptId = null
handleCreate ==
  /\ activeView = "library"
  /\ activeView' = "architect"
  /\ editingPromptId' = Null
  /\ UNCHANGED <<gatewayVars, personaVars, draftVars, storeVars>>
  /\ UNCHANGED <<field, tenor, mode, attachments, uploads, nextUuid, prompts, preview>>

\* App.handleEdit(id) and the Architect's load effect
handleEdit(id) ==
  /\ activeView = "library"
  /\ \E i \in 1..Len(prompts) :
       /\ prompts[i].id = id
       /\ \A j \in 1..(i - 1) : prompts[j].id # id
       /\ field' = prompts[i].sflField
       /\ tenor' = prompts[i].sflTenor
       /\ mode' = prompts[i].sflMode
       /\ attachments' = prompts[i].attachments
       /\ title' = prompts[i].title
  /\ activeView' = "architect"
  /\ editingPromptId' = id
  /\ UNCHANGED <<gatewayVars, personaVars, storeVars>>
  /\ UNCHANGED <<isTesting, testResponse, testRuns, isGenerating, generateCalls>>
  /\ UNCHANGED <<uploads, nextUuid, prompts, preview>>

\* App.handleCloseArchitect (the editor's close button)
handleCloseArchitect ==
  /\ activeView = "architect"
  /\ activeView' = "library"
  /\ editingPromptId' = Null
  /\ Unmount
  /\ UNCHANGED <<gatewayVars, storeVars>>
  /\ UNCHANGED <<nextUuid, prompts, preview>>

\* setField({...field, topic: v})
setTopic(topic) ==
  /\ activeView = "architect"
  /\ field' = Spread(field, [topic |-> topic])
  /\ field' # field
  /\ UNCHANGED <<gatewayVars, personaVars, draftVars, storeVars>>
  /\ UNCHANGED <<activeView, editingPromptId, tenor, mode, attachments, uploads,
                 nextUuid, prompts, preview>>

\* setTenor({...tenor, targetAudience: v.split(',').map(s => s.trim())})
setTargetAudience(v) ==
  /\ activeView = "architect"
  /\ LET parts == Split(v, ",")
     IN  tenor' = Spread(tenor, [targetAudience |->
                                  [i \in 1..Len(parts) |-> Trim(parts[i])]])
  /\ tenor' # tenor
  /\ UNCHANGED <<gatewayVars, personaVars, draftVars, storeVars>>
  /\ UNCHANGED <<activeView, editingPromptId, field, mode, attachments, uploads,
                 nextUuid, prompts, preview>>

\* handleFileUpload up to its first await: the first file gets its id and its
\* record, and processFile is called for it
handleFileUpload(files) ==
  /\ activeView = "architect"
  /\ Len(files) > 0
  /\ nextUuid + UuidsReserved + Len(files) - 1 <= MaxUuid
  /\ attachments' = Append(attachments, newAttachment(nextUuid, files[1]))
  /\ uploads' = uploads \cup {Upload(files, 1, nextUuid, TRUE)}
  /\ nextUuid' = nextUuid + 1
  /\ UNCHANGED <<gatewayVars, personaVars, draftVars, storeVars>>
  /\ UNCHANGED <<activeView, editingPromptId, field, tenor, mode, prompts, preview>>

\* prev.map(a => a.id === id ? { ...a, status: 'done', analysis } : a)
SettleDoneMutUpsert(prev, id, analysis) ==
  IF \E i \in 1..Len(prev) : prev[i].id = id
  THEN [i \in 1..Len(prev) |->
          IF prev[i].id = id
          THEN Spread(prev[i], [status |-> "done", analysis |-> analysis])
          ELSE prev[i]]
  ELSE Append(prev, [id |-> id, status |-> "done", analysis |-> analysis])
SettleDone(prev, id, analysis) ==
  [i \in 1..Len(prev) |->
     IF prev[i].id = id
     THEN Spread(prev[i], [status |-> "done", analysis |-> analysis])
     ELSE prev[i]]

\* prev.map(a => a.id === id ? { ...a, status: 'error', errorMessage } : a)
SettleErrorMutLast(prev, id) ==
  [i \in 1..Len(prev) |->
     IF i = Len(prev)
     THEN Spread(prev[i], [status |-> "error", errorMessage |-> <<"Analysis failed">>])
     ELSE prev[i]]
SettleError(prev, id) ==
  [i \in 1..Len(prev) |->
     IF prev[i].id = id
     THEN Spread(prev[i], [status |-> "error", errorMessage |-> <<"Analysis failed">>])
     ELSE prev[i]]

SettledMutAlwaysDone(prev, id, result) ==
  IF result.ok THEN SettleDone(prev, id, result.value.analysis)
  ELSE SettleDone(prev, id, <<"Analysis failed">>)
Settled(prev, id, result) ==
  IF result.ok THEN SettleDone(prev, id, result.value.analysis)
  ELSE SettleError(prev, id)

\* The rest of one iteration of handleFileUpload's loop after processFile has
\* settled, and the next iteration up to its await (or the end of the loop)
settleUploadMutAbort(u, result) ==
  /\ u \in uploads
  /\ u.mounted
  /\ result \in processFile(u.files[u.k])
  /\ IF u.k < Len(u.files) /\ result.ok
     THEN /\ attachments' = Append(Settled(attachments, u.id, result),
                                   newAttachment(nextUuid, u.files[u.k + 1]))
          /\ uploads' = (uploads \ {u}) \cup {Upload(u.files, u.k + 1, nextUuid, TRUE)}
          /\ nextUuid' = nextUuid + 1
     ELSE /\ attachments' = Settled(attachments, u.id, result)
          /\ uploads' = uploads \ {u}
          /\ nextUuid' = nextUuid
  /\ UNCHANGED <<gatewayVars, personaVars, draftVars, storeVars>>
  /\ UNCHANGED <<activeView, editingPromptId, field, tenor, mode, prompts, preview>>
settleUpload(u, result) ==
  /\ u \in uploads
  /\ u.mounted
  /\ result \in processFile(u.files[u.k])
  /\ IF u.k < Len(u.files)
     THEN /\ attachments' = Append(Settled(attachments, u.id, result),
                                   newAttachment(nextUuid, u.files[u.k + 1]))
          /\ uploads' = (uploads \ {u}) \cup {Upload(u.files, u.k + 1, nextUuid, TRUE)}
          /\ nextUuid' = nextUuid + 1
     ELSE /\ attachments' = Settled(attachments, u.id, result)
          /\ uploads' = uploads \ {u}
          /\ nextUuid' = nextUuid
  /\ UNCHANGED <<gatewayVars, personaVars, draftVars, storeVars>>
  /\ UNCHANGED <<activeView, editingPromptId, field, tenor, mode, prompts, preview>>

\* The same for an invocation whose Architect has been unmounted: its state
\* updates reach no mounted component, so the rest of its loop changes nothing
settleUnmounted(u) ==
  /\ u \in uploads
  /\ ~u.mounted
  /\ uploads' = uploads \ {u}
  /\ UNCHANGED <<gatewayVars, personaVars, draftVars, storeVars>>
  /\ UNCHANGED <<activeView, editingPromptId, field, tenor, mode, attachments,
                 nextUuid, prompts, preview>>

\* prev.filter(a => a.id !== id)
WithoutId(prev, id) == SelectSeq(prev, LAMBDA a : a.id # id)

removeAttachment(id) ==
  /\ activeView = "architect"
  /\ \E i \in 1..Len(attachments) : attachments[i].id = id
  /\ attachments' = WithoutId(attachments, id)
  /\ UNCHANGED <<gatewayVars, personaVars, draftVars, storeVars>>
  /\ UNCHANGED <<activeView, editingPromptId, field, tenor, mode, uploads,
                 nextUuid, prompts, preview>>

\* store.addPrompt / store.updatePrompt / store.deletePrompt
addPromptMutAppends(list, prompt) == Append(list, prompt)
addPrompt(list, prompt) == <<prompt>> \o list
\* p.id === id ? { ...p, ...updates, updatedAt: Date.now() } : p
updatePromptMutKeepsStamp(list, id, updates, time) ==
  [i \in 1..Len(list) |->
     IF list[i].id = id
     THEN Spread(Spread(list[i], [updatedAt |-> time]), updates)
     ELSE list[i]]
updatePrompt(list, id, updates, time) ==
  [i \in 1..Len(list) |->
     IF list[i].id = id
     THEN Spread(Spread(list[i], updates), [updatedAt |-> time])
     ELSE list[i]]
deletePrompt(id) ==
  /\ activeView = "library"
  /\ \E i \in 1..Len(prompts) : prompts[i].id = id
  /\ prompts' = SelectSeq(prompts, LAMBDA p : p.id # id)
  /\ activePromptId' = IF activePromptId = id THEN Null ELSE activePromptId
  /\ preferences' = preferences
  /\ UNCHANGED <<gatewayVars, personaVars, draftVars>>
  /\ UNCHANGED <<activeView, editingPromptId, field, tenor, mode, attachments,
                 uploads, nextUuid, preview>>

\* Architect.handleSave: a throw of compileSFLPrompt leaves the handler before
\* the store is written.  Of the PromptSFL record the id, the two timestamps,
\* the title, the three facets, the attachments and the compiled string are
\* kept; the description is not part of this model
handleSaveMutKeepsCache ==
  /\ activeView = "architect"
  /\ LET compiled == compileSFLPrompt(field, tenor, mode, attachments)
         promptData(id) ==
           [id |-> id, title |-> title, createdAt |-> now, updatedAt |-> now,
            sflField |-> field, sflTenor |-> tenor, sflMode |-> mode,
            attachments |-> attachments, compiledPrompt |-> compiled.value]
     IN  IF ~compiled.ok THEN UNCHANGED vars
         ELSE /\ IF editingPromptId # Null
                 THEN /\ prompts' = updatePrompt(prompts, editingPromptId,
                           [key \in DOMAIN promptData(editingPromptId) \ {"compiledPrompt"}
                              |-> promptData(editingPromptId)[key]], now)
                      /\ nextUuid' = nextUuid
                 ELSE /\ nextUuid <= MaxUuid
                      /\ Len(prompts) < MaxPrompts
                      /\ prompts' = addPrompt(prompts, promptData(nextUuid))
                      /\ nextUuid' = nextUuid + 1
              /\ activeView' = "library"
              /\ editingPromptId' = Null
              /\ Unmount
              /\ preview' = preview
              /\ UNCHANGED <<gatewayVars, storeVars>>
handleSave ==
  /\ activeView = "architect"
  /\ LET compiled == compileSFLPrompt(field, tenor, mode, attachments)
         promptData(id) ==
           [id |-> id, title |-> title, createdAt |-> now, updatedAt |-> now,
            sflField |-> field, sflTenor |-> tenor, sflMode |-> mode,
            attachments |-> attachments, compiledPrompt |-> compiled.value]
     IN  IF ~compiled.ok THEN UNCHANGED vars
         ELSE /\ IF editingPromptId # Null
                 THEN /\ prompts' = updatePrompt(prompts, editingPromptId,
                                                 promptData(editingPromptId), now)
                      /\ nextUuid' = nextUuid
                 ELSE /\ nextUuid <= MaxUuid
                      /\ Len(prompts) < MaxPrompts
                      /\ prompts' = addPrompt(prompts, promptData(nextUuid))
                      /\ nextUuid' = nextUuid + 1
              /\ activeView' = "library"
              /\ editingPromptId' = Null
              /\ Unmount
              /\ preview' = preview
              /\ UNCHANGED <<gatewayVars, storeVars>>

Next ==
  \/ handleCreate
  \/ \E id \in 1..MaxUuid : handleEdit(id)
  \/ handleCloseArchitect
  \/ \E topic \in Topics : setTopic(topic)
  \/ \E v \in AudienceInputs : setTargetAudience(v)
  \/ \E files \in FileLists : handleFileUpload(files)
  \/ \E u \in uploads : \E result \in processFile(u.files[u.k]) : settleUpload(u, result)
  \/ \E u \in uploads : settleUnmounted(u)
  \/ \E id \in 1..MaxUuid : removeAttachment(id)
  \/ \E id \in 1..MaxUuid : deletePrompt(id)
  \/ handleSave

Spec == Init /\ [][Next]_vars

\* The ingestion calls that are issued settle: the provider call and the file
\* reads are asynchronous operations that resolve or reject
FairSpec ==
  /\ Spec
  /\ WF_vars(\E u \in uploads : \E result \in processFile(u.files[u.k]) : settleUpload(u, result))
  /\ WF_vars(\E u \in uploads : settleUnmounted(u))

\* ------------------------------------------------------------------------
\* Ingestion on its own: an open editor in which files of every route are
\* attached one at a time and their processFile calls settle
\* ------------------------------------------------------------------------
InitIngest ==
  /\ activeView = "architect"
  /\ editingPromptId = Null
  /\ field = DEFAULT_FIELD
  /\ tenor = DEFAULT_TENOR
  /\ mode = DEFAULT_MODE
  /\ attachments = << >>
  /\ uploads = {}
  /\ nextUuid = 1
  /\ prompts = << >>
  /\ preview = NotRendered
  /\ isAnalyzingPersona = FALSE
  /\ personaCalls = {}
  /\ personaError = NoError
  /\ outcome = NotCalled
  /\ now = 1
  /\ title = UntitledNarrative
  /\ isTesting = FALSE
  /\ testResponse = << >>
  /\ testRuns = {}
  /\ isGenerating = FALSE
  /\ generateCalls = {}
  /\ activePromptId = Null
  /\ preferences = DefaultPreferences

NextIngest ==
  \/ \E file \in IngestFiles : handleFileUpload(<<file>>)
  \/ \E u \in uploads : \E result \in processFile(u.files[u.k]) : settleUpload(u, result)

SpecIngest == InitIngest /\ [][NextIngest]_vars

\* ------------------------------------------------------------------------
\* Architect.handlePersonaFileUpload
\* ------------------------------------------------------------------------
\* Up to its await: the flag is set and analyzeFilesForTenor(files) is called
\* with the default model.  The handler keeps the tenor of the render it
\* was created in
handlePersonaFileUpload(files) ==
  /\ activeView = "architect"
  /\ Len(files) > 0
  /\ ~isAnalyzingPersona
  /\ isAnalyzingPersona' = TRUE
  /\ personaCalls' = personaCalls \cup {[files |-> files, tenor |-> tenor, mounted |-> TRUE]}
  /\ UNCHANGED <<appVars, personaError, gatewayVars, draftVars, storeVars>>

\* After the await: setTenor({...tenor, ...result}) for a result that is not
\* null, the catch for a rejection, and the finally.  A state update of an
\* unmounted Architect changes nothing
settlePersona(c, run) ==
  /\ c \in personaCalls
  /\ run \in analyzeFilesForTenor(c.files, "gemini-3-pro-preview")
  /\ tenor' = IF c.mounted /\ run.result.ok /\ run.result.value # NoObject
              THEN Spread(c.tenor, run.result.value)
              ELSE tenor
  /\ personaError' = IF run.result.ok THEN personaError ELSE run.result.error
  /\ isAnalyzingPersona' = IF c.mounted THEN FALSE ELSE isAnalyzingPersona
  /\ personaCalls' = personaCalls \ {c}
  /\ UNCHANGED <<activeView, editingPromptId, field, mode, attachments, uploads,
                 nextUuid, prompts, preview, gatewayVars, draftVars, storeVars>>

\* The persona analysis on its own: an open editor in which the audience is
\* edited and files are handed to the persona analysis
NextPersona ==
  \/ \E v \in AudienceInputs : setTargetAudience(v)
  \/ \E files \in FileLists : handlePersonaFileUpload(files)
  \/ \E c \in personaCalls :
       \E run \in analyzeFilesForTenor(c.files, "gemini-3-pro-preview") : settlePersona(c, run)

SpecPersona == InitIngest /\ [][NextPersona]_vars

\* ------------------------------------------------------------------------
\* Architect.handleAutoGenerate
\* ------------------------------------------------------------------------
\* Up to its await: a blank goal returns at once; the button is disabled
\* while isGenerating
handleAutoGenerate(goal) ==
  /\ activeView = "architect"
  /\ ~isGenerating
  /\ Trim(goal) # << >>
  /\ isGenerating' = TRUE
  /\ generateCalls' = generateCalls \cup {[goal |-> goal, mounted |-> TRUE]}
  /\ UNCHANGED <<appVars, personaVars, gatewayVars, storeVars>>
  /\ UNCHANGED <<title, isTesting, testResponse, testRuns>>

\* After the await: for a result that is not null, setTitle(result.title),
\* setField(result.field), setTenor(result.tenor), setMode(result.mode), where
\* a property the object does not have reads as undefined; the catch (an
\* alert) and the finally.  A state update of an unmounted Architect changes
\* nothing
settleGenerate(c, reply) ==
  /\ c \in generateCalls
  /\ LET result == generateSFLFromGoal(c.goal, "gemini-3-pro-preview", reply).result
         stored == c.mounted /\ result.ok /\ result.value # NoObject
         read(key) == IF key \in DOMAIN result.value THEN result.value[key]
                      ELSE [undefined |-> TRUE]
     IN  /\ title' = IF stored THEN read("title") ELSE title
         /\ field' = IF stored THEN read("field") ELSE field
         /\ tenor' = IF stored THEN read("tenor") ELSE tenor
         /\ mode' = IF stored THEN read("mode") ELSE mode
  /\ isGenerating' = IF c.mounted THEN FALSE ELSE isGenerating
  /\ generateCalls' = generateCalls \ {c}
  /\ UNCHANGED <<activeView, editingPromptId, attachments, uploads, nextUuid, prompts,
                 preview, personaVars, gatewayVars, storeVars>>
  /\ UNCHANGED <<isTesting, testResponse, testRuns>>

\* What the user types as the goal
Goals == {<<"teach", " ", "cats">>}

\* Provider results in the editor: an open editor whose structure is
\* generated from a goal and whose persona is inferred from files, for as
\* long as the editor renders (a throw of compileSFLPrompt in the render
\* takes the page down)
Renders == compileSFLPrompt(field, tenor, mode, attachments).ok

NextGenerate ==
  \/ Renders /\ \E goal \in Goals \cup {<<" ">>} : handleAutoGenerate(goal)
  \/ Renders /\ \E c \in generateCalls :
                  \E reply \in StructuredReplies : settleGenerate(c, reply)
  \/ Renders /\ \E v \in AudienceInputs : setTargetAudience(v)
  \/ Renders /\ handlePersonaFileUpload(<<PngFile>>)
  \/ Renders /\ \E c \in personaCalls :
                  \E run \in analyzeFilesForTenor(c.files, "gemini-3-pro-preview") :
                    settlePersona(c, run)

SpecGenerate == InitIngest /\ [][NextGenerate]_vars

\* ------------------------------------------------------------------------
\* Architect: the title input and handleTest
\* ------------------------------------------------------------------------
setTitleMutRenamesStored(v) ==
  /\ activeView = "architect"
  /\ title' = v
  /\ title' # title
  /\ prompts' = updatePrompt(prompts, editingPromptId, [title |-> v], now)
  /\ UNCHANGED <<activeView, editingPromptId, field, tenor, mode, attachments,
                 uploads, nextUuid, preview>>
  /\ UNCHANGED <<personaVars, gatewayVars, storeVars>>
  /\ UNCHANGED <<isTesting, testResponse, testRuns, isGenerating, generateCalls>>
setTitle(v) ==
  /\ activeView = "architect"
  /\ title' = v
  /\ title' # title
  /\ UNCHANGED <<appVars, personaVars, gatewayVars, storeVars>>
  /\ UNCHANGED <<isTesting, testResponse, testRuns, isGenerating, generateCalls>>

TestFailed == <<"Error executing prompt. Please check settings.">>

\* handleTest up to its first suspension: the flag is set, the prompt is
\* compiled (a throw of the compiler leaves the handler there, before the
\* try), the displayed response is cleared and the stream is requested.
\* The button is disabled while isTesting
handleTest(stream) ==
  /\ activeView = "architect"
  /\ ~isTesting
  /\ isTesting' = TRUE
  /\ LET compiled == compileSFLPrompt(field, tenor, mode, attachments)
     IN  IF ~compiled.ok
         THEN UNCHANGED <<testResponse, testRuns>>
         ELSE /\ testResponse' = << >>
              /\ testRuns' = testRuns \cup
                   {[run |-> executePromptStream(compiled.value, "gemini-3-pro-preview",
                                                 stream).result,
                     k |-> 0, mounted |-> TRUE]}
  /\ UNCHANGED <<appVars, personaVars, gatewayVars, storeVars>>
  /\ UNCHANGED <<title, isGenerating, generateCalls>>

\* One iteration of the for-await: setTestResponse(prev => prev + chunk).  A
\* state update of an unmounted Architect changes nothing
testChunkMutReplaces(r) ==
  /\ r \in testRuns
  /\ r.k < Len(r.run.yielded)
  /\ testResponse' = IF r.mounted THEN r.run.yielded[r.k + 1] ELSE testResponse
  /\ testRuns' = (testRuns \ {r}) \cup {[r EXCEPT !.k = r.k + 1]}
  /\ UNCHANGED <<appVars, personaVars, gatewayVars, storeVars>>
  /\ UNCHANGED <<title, isTesting, isGenerating, generateCalls>>
testChunk(r) ==
  /\ r \in testRuns
  /\ r.k < Len(r.run.yielded)
  /\ testResponse' = IF r.mounted THEN testResponse \o r.run.yielded[r.k + 1]
                     ELSE testResponse
  /\ testRuns' = (testRuns \ {r}) \cup {[r EXCEPT !.k = r.k + 1]}
  /\ UNCHANGED <<appVars, personaVars, gatewayVars, storeVars>>
  /\ UNCHANGED <<title, isTesting, isGenerating, generateCalls>>

\* The stream ends or throws: the catch and the finally
testEnd(r) ==
  /\ r \in testRuns
  /\ r.k = Len(r.run.yielded)
  /\ testResponse' = IF r.mounted /\ ~r.run.ok THEN TestFailed ELSE testResponse
  /\ isTesting' = IF r.mounted THEN FALSE ELSE isTesting
  /\ testRuns' = testRuns \ {r}
  /\ UNCHANGED <<appVars, personaVars, gatewayVars, storeVars>>
  /\ UNCHANGED <<title, isGenerating, generateCalls>>

\* The test execution on its own: an open editor whose topic, audience and
\* title are edited and whose prompt is run against every stream
NextTest ==
  \/ \E topic \in Topics : setTopic(topic)
  \/ \E v \in AudienceInputs : setTargetAudience(v)
  \/ \E v \in {UntitledNarrative, <<"Tide">>} : setTitle(v)
  \/ \E stream \in Streams : handleTest(stream)
  \/ \E r \in testRuns : testChunk(r)
  \/ \E r \in testRuns : testEnd(r)

SpecTest == InitIngest /\ [][NextTest]_vars

\* ------------------------------------------------------------------------
\* An editing session with the store: the editor is open on a stored prompt,
\* which is edited, tested, given a persona and attachments, and then saved
\* or left as it was, and deleted from the library
\* ------------------------------------------------------------------------
DefaultPrompt == compileSFLPrompt(DEFAULT_FIELD, DEFAULT_TENOR, DEFAULT_MODE, << >>).value

\* The prompt that handleSave stores for an editor nobody has touched
UntouchedPrompt(id) ==
  [id |-> id, title |-> UntitledNarrative, createdAt |-> now, updatedAt |-> now,
   sflField |-> DEFAULT_FIELD, sflTenor |-> DEFAULT_TENOR, sflMode |-> DEFAULT_MODE,
   attachments |-> << >>, compiledPrompt |-> DefaultPrompt]

\* The state after handleCreate, handleSave and handleEdit of the new prompt
InitSession ==
  /\ activeView = "architect"
  /\ editingPromptId = 1
  /\ field = DEFAULT_FIELD
  /\ tenor = DEFAULT_TENOR
  /\ mode = DEFAULT_MODE
  /\ attachments = << >>
  /\ uploads = {}
  /\ nextUuid = 2
  /\ now = 1
  /\ prompts = <<UntouchedPrompt(1)>>
  /\ preview = NotRendered
  /\ isAnalyzingPersona = FALSE
  /\ personaCalls = {}
  /\ personaError = NoError
  /\ outcome = NotCalled
  /\ title = UntitledNarrative
  /\ isTesting = FALSE
  /\ testResponse = << >>
  /\ testRuns = {}
  /\ isGenerating = FALSE
  /\ generateCalls = {}
  /\ activePromptId = Null
  /\ preferences = DefaultPreferences

NextSession ==
  \/ handleCloseArchitect
  \/ setTopic(<<"cats">>)
  \/ setTitle(<<"Tide">>)
  \/ handleFileUpload(<<TxtFile>>)
  \/ \E u \in uploads : \E result \in processFile(u.files[u.k]) : settleUpload(u, result)
  \/ \E u \in uploads : settleUnmounted(u)
  \/ \E id \in 1..MaxUuid : removeAttachment(id)
  \/ \E stream \in Streams : handleTest(stream)
  \/ \E r \in testRuns : testChunk(r)
  \/ \E r \in testRuns : testEnd(r)
  \/ handlePersonaFileUpload(<<TxtFile>>)
  \/ \E c \in personaCalls :
       \E run \in analyzeFilesForTenor(c.files, "gemini-3-pro-preview") : settlePersona(c, run)
  \/ \E id \in 1..MaxUuid : deletePrompt(id)
  \/ handleSave

SpecSession == InitSession /\ [][NextSession]_vars

\* ------------------------------------------------------------------------
\* The gateway on its own: each capability is called with every input and
\* every behaviour of the provider, and the call is kept in outcome once made
\* ------------------------------------------------------------------------
PersonaFiles == {PngFile, PdfFile, VideoFile, TxtFile, EmptyFile, DocxNamedFile}

\* The calls to make: the capability, its arguments and (but for
\* analyzeFilesForTenor, whose reads and reply are drawn when it runs) what
\* the provider will do
GatewayRequests ==
  {[op |-> "listModels", provider |-> listing, done |-> FALSE] : listing \in ModelListings}
  \cup {[op |-> "executePrompt", model |-> model, provider |-> reply, done |-> FALSE]
         : model \in GatewayModels, reply \in TextReplies}
  \cup {[op |-> "executePromptStream", model |-> model, provider |-> stream, done |-> FALSE]
         : model \in GatewayModels, stream \in Streams}
  \cup {[op |-> "generateSFLFromGoal", goal |-> goal, model |-> model,
          provider |-> reply, done |-> FALSE]
         : goal \in Goals, model \in GatewayModels, reply \in StructuredReplies}
  \cup {[op |-> "analyzeFilesForTenor", files |-> files, model |-> model, done |-> FALSE]
         : files \in SeqsUpTo(PersonaFiles, MaxBatch), model \in GatewayModels}

InitGateway ==
  /\ activeView = "library"
  /\ editingPromptId = Null
  /\ field = DEFAULT_FIELD
  /\ tenor = DEFAULT_TENOR
  /\ mode = DEFAULT_MODE
  /\ attachments = << >>
  /\ uploads = {}
  /\ nextUuid = 1
  /\ prompts = << >>
  /\ preview = NotRendered
  /\ isAnalyzingPersona = FALSE
  /\ personaCalls = {}
  /\ personaError = NoError
  /\ outcome \in GatewayRequests
  /\ now = 1
  /\ title = UntitledNarrative
  /\ isTesting = FALSE
  /\ testResponse = << >>
  /\ testRuns = {}
  /\ isGenerating = FALSE
  /\ generateCalls = {}
  /\ activePromptId = Null
  /\ preferences = DefaultPreferences

Done(op) == outcome.op = op /\ outcome.done

callListModels ==
  /\ outcome.op = "listModels" /\ ~outcome.done
  /\ outcome' = Spread(outcome, [done |-> TRUE, result |-> listModels(outcome.provider)])
  /\ UNCHANGED <<appVars, personaVars, now, draftVars, storeVars>>

callExecutePrompt ==
  /\ outcome.op = "executePrompt" /\ ~outcome.done
  /\ outcome' = Spread(Spread(outcome, [done |-> TRUE]),
                       executePrompt(DefaultPrompt, outcome.model, outcome.provider))
  /\ UNCHANGED <<appVars, personaVars, now, draftVars, storeVars>>

callExecutePromptStream ==
  /\ outcome.op = "executePromptStream" /\ ~outcome.done
  /\ outcome' = Spread(Spread(outcome, [done |-> TRUE]),
                       executePromptStream(DefaultPrompt, outcome.model, outcome.provider))
  /\ UNCHANGED <<appVars, personaVars, now, draftVars, storeVars>>

callGenerateSFLFromGoal ==
  /\ outcome.op = "generateSFLFromGoal" /\ ~outcome.done
  /\ outcome' = Spread(Spread(outcome, [done |-> TRUE]),
                       generateSFLFromGoal(outcome.goal, outcome.model, outcome.provider))
  /\ UNCHANGED <<appVars, personaVars, now, draftVars, storeVars>>

callAnalyzeFilesForTenor ==
  /\ outcome.op = "analyzeFilesForTenor" /\ ~outcome.done
  /\ \E run \in analyzeFilesForTenor(outcome.files, outcome.model) :
       outcome' = Spread(outcome, [done |-> TRUE, provider |-> run.reply,
                                   calls |-> run.calls, result |-> run.result])
  /\ UNCHANGED <<appVars, personaVars, now, draftVars, storeVars>>

NextGateway ==
  \/ callListModels
  \/ callExecutePrompt
  \/ callExecutePromptStream
  \/ callGenerateSFLFromGoal
  \/ callAnalyzeFilesForTenor

SpecGateway == InitGateway /\ [][NextGateway]_vars

\* ------------------------------------------------------------------------
\* The store on its own: prompts are added and updated through the store's
\* functions while the clock advances
\* ------------------------------------------------------------------------
\* Date.now() advances
Tick ==
  /\ now < MaxClock
  /\ now' = now + 1
  /\ UNCHANGED <<appVars, personaVars, outcome, draftVars, storeVars>>

\* Saves over time: prompts are created, reopened, edited, saved and deleted
\* while the clock advances
NextSaves ==
  \/ Tick
  \/ handleCreate
  \/ \E id \in 1..MaxUuid : handleEdit(id)
  \/ \E topic \in Topics : setTopic(topic)
  \/ handleSave
  \/ \E id \in 1..MaxUuid : deletePrompt(id)

SpecSaves == Init /\ [][NextSaves]_vars

\* What a caller hands to updatePrompt: some properties of a prompt, with or
\* without an updatedAt of its own
StoreUpdates ==
  { [sflField |-> Spread(DEFAULT_FIELD, [topic |-> <<"cats">>])],
    [updatedAt |-> 0],
    [compiledPrompt |-> <<"edited">>, updatedAt |-> 0] }

\* addPrompt(prompt) with a prompt as handleSave builds it
callAddPrompt ==
  /\ nextUuid <= MaxUuid
  /\ prompts' = addPrompt(prompts, UntouchedPrompt(nextUuid))
  /\ nextUuid' = nextUuid + 1
  /\ UNCHANGED <<activeView, editingPromptId, field, tenor, mode, attachments,
                 uploads, preview, personaVars, gatewayVars, draftVars, storeVars>>

callUpdatePrompt(id, updates) ==
  /\ prompts' = updatePrompt(prompts, id, updates, now)
  /\ UNCHANGED <<activeView, editingPromptId, field, tenor, mode, attachments,
                 uploads, nextUuid, preview, personaVars, gatewayVars, draftVars, storeVars>>

\* setActivePrompt(id) and setTheme(theme)
callSetActivePrompt(id) ==
  /\ activePromptId' = id
  /\ activePromptId' # activePromptId
  /\ UNCHANGED <<appVars, personaVars, gatewayVars, draftVars, preferences>>

callSetTheme(theme) ==
  /\ preferences' = Spread(preferences, [theme |-> theme])
  /\ preferences' # preferences
  /\ UNCHANGED <<appVars, personaVars, gatewayVars, draftVars, activePromptId>>

\* deletePrompt(id), for an id that is in the list or not
callDeletePromptMutClearsActive(id) ==
  /\ prompts' = SelectSeq(prompts, LAMBDA p : p.id # id)
  /\ activePromptId' = Null
  /\ UNCHANGED <<activeView, editingPromptId, field, tenor, mode, attachments,
                 uploads, nextUuid, preview, personaVars, gatewayVars, draftVars,
                 preferences>>
callDeletePrompt(id) ==
  /\ prompts' = SelectSeq(prompts, LAMBDA p : p.id # id)
  /\ activePromptId' = IF activePromptId = id THEN Null ELSE activePromptId
  /\ UNCHANGED <<activeView, editingPromptId, field, tenor, mode, attachments,
                 uploads, nextUuid, preview, personaVars, gatewayVars, draftVars,
                 preferences>>

NextStore ==
  \/ Tick
  \/ callAddPrompt
  \/ \E id \in 1..MaxUuid, updates \in StoreUpdates : callUpdatePrompt(id, updates)
  \/ \E id \in {Null} \cup 1..MaxUuid : callSetActivePrompt(id)
  \/ \E theme \in {"light", "dark"} : callSetTheme(theme)
  \/ \E id \in 1..MaxUuid : callDeletePrompt(id)

SpecStore == Init /\ [][NextStore]_vars

\* ------------------------------------------------------------------------
\* Properties of the attachment list
\* ------------------------------------------------------------------------
IdsOf(list) == {list[i].id : i \in 1..Len(list)}
Prefix(list, n) == SubSeq(list, 1, n)
SameSession == activeView = "architect" /\ activeView' = "architect"

\* A step in which the mounted invocation u leaves its await (processFile for
\* u.id has settled)
Settles(u) ==
  /\ u \in uploads
  /\ u.mounted
  /\ SameSession
  /\ u \notin uploads'

\* C1: within an editor session a record enters the attachment list with
\* status 'processing'; its status only goes processing -> done or
\* processing -> error; a 'done' record carries analysis, an 'error' record
\* carries errorMessage; a record that is 'done' or 'error' is never changed
\* again by any later step.
C1_Carries ==
  \A i \in 1..Len(attachments) :
    /\ attachments[i].status = "done" => "analysis" \in DOMAIN attachments[i]
    /\ attachments[i].status = "error" => "errorMessage" \in DOMAIN attachments[i]

C1_Step ==
  SameSession =>
    \A j \in 1..Len(attachments') :
      LET b == attachments'[j]
      IN  IF b.id \notin IdsOf(attachments)
          THEN b.status = "processing"
          ELSE \A i \in 1..Len(attachments) :
                 attachments[i].id = b.id =>
                   /\ \/ b.status = attachments[i].status
                      \/ /\ attachments[i].status = "processing"
                         /\ b.status \in {"done", "error"}
                   /\ attachments[i].status \in {"done", "error"} => b = attachments[i]

\* C1: in every state a 'done' record carries analysis and an 'error' record
\* errorMessage, and every step keeps to the lifecycle processing -> done | error.
C1_StatusLifecycle == []C1_Carries /\ [][C1_Step]_vars

C1_Witness ==
  /\ activeView = "architect"
  /\ \E i, j \in 1..Len(attachments) :
       /\ attachments[i].status = "done" /\ "analysis" \in DOMAIN attachments[i]
       /\ attachments[j].status = "error" /\ "errorMessage" \in DOMAIN attachments[j]

\* C2: when processFile rejects for the file of invocation u, the record of
\* u.id becomes 'error', every other record is unchanged and none is removed,
\* and the next file of the same upload gets its 'processing' record and its
\* own processFile call.
C2_Step ==
  \A u \in uploads :
    ( /\ Settles(u)
      /\ \E i \in 1..Len(attachments) :
           /\ attachments[i].id = u.id
           /\ attachments[i].status = "processing"
           /\ attachments'[i].status = "error" ) =>
      /\ Len(attachments') >= Len(attachments)
      /\ \A i \in 1..Len(attachments) :
           IF attachments[i].id = u.id
           THEN attachments'[i].id = u.id /\ attachments'[i].status = "error"
           ELSE attachments'[i] = attachments[i]
      /\ u.k < Len(u.files) =>
           \E v \in uploads' :
             /\ v.files = u.files /\ v.k = u.k + 1 /\ v.mounted
             /\ Len(attachments') = Len(attachments) + 1
             /\ attachments'[Len(attachments')].id = v.id
             /\ attachments'[Len(attachments')].name = u.files[u.k + 1].name
             /\ attachments'[Len(attachments')].status = "processing"

\* C2: every step in which a call rejects isolates the failure to its record.
C2_FailureIsolation == [][C2_Step]_vars

C2_Witness ==
  /\ Len(attachments) = 2
  /\ attachments[1].status = "error"
  /\ attachments[2].status = "processing"
  /\ \E u \in uploads : u.mounted /\ u.k = 2 /\ u.id = attachments[2].id

\* C3: when processFile settles for an id that removeAttachment has taken out
\* of the list, every record of the list is unchanged, no record with that id
\* comes back, and the invocation goes on as usual (it ends, or its next file
\* gets its record): nothing was raised.
C3_Step ==
  \A u \in uploads :
    (Settles(u) /\ u.id \notin IdsOf(attachments)) =>
      /\ Len(attachments') >= Len(attachments)
      /\ Prefix(attachments', Len(attachments)) = attachments
      /\ u.id \notin IdsOf(attachments')
      /\ IF u.k = Len(u.files)
         THEN attachments' = attachments
         ELSE /\ Len(attachments') = Len(attachments) + 1
              /\ \E v \in uploads' : v.files = u.files /\ v.k = u.k + 1 /\ v.mounted

\* C3: every settlement for a removed id leaves the records as they were.
C3_RemovedWhileInFlight == [][C3_Step]_vars

C3_Witness ==
  /\ activeView = "architect"
  /\ \E u \in uploads :
       /\ u.mounted
       /\ u.id \notin IdsOf(attachments)
       /\ Len(attachments) > 0

\* C4: every file of an upload in flight has its record: by the time
\* handleFileUpload is suspended, no file of the batch is left without a
\* 'processing' record (the files of a batch are ingested concurrently).
C4_BatchIsConcurrent ==
  \A u \in uploads : u.mounted => u.k = Len(u.files)

\* C5: a settlement writes the record whose id was allocated for that call
\* and nothing else: every other record is unchanged, the records keep their
\* positions, and no two invocations in flight hold the same id.
C5_DistinctIds ==
  \A u, v \in uploads : (u.mounted /\ v.mounted /\ u # v) => u.id # v.id

C5_Step ==
  \A u \in uploads :
    Settles(u) =>
      /\ Len(attachments') >= Len(attachments)
      /\ \A i \in 1..Len(attachments) :
           /\ attachments'[i].id = attachments[i].id
           /\ attachments[i].id # u.id => attachments'[i] = attachments[i]
           /\ (attachments[i].id = u.id /\ attachments[i].status = "processing") =>
                attachments'[i].status \in {"done", "error"}
      /\ Len(attachments') = Len(attachments) + (IF u.k < Len(u.files) THEN 1 ELSE 0)

\* C5: ids in flight are distinct and every settlement writes its own record only.
C5_ReconciledById == []C5_DistinctIds /\ [][C5_Step]_vars

C5_Witness ==
  /\ Len(attachments) = 2
  /\ attachments[1].status = "processing"
  /\ attachments[2].status \in {"done", "error"}
  /\ \E u \in uploads : u.mounted /\ u.id = attachments[1].id /\ Len(u.files) = 1

\* C6: every record that stays in the editor's attachment list eventually
\* leaves 'processing', given that every ingestion call settles.
ProcessingInList(id) ==
  \E i \in 1..Len(attachments) :
    attachments[i].id = id /\ attachments[i].status = "processing"

C6_EventuallySettled ==
  \A id \in 1..MaxUuid : ProcessingInList(id) ~> ~ProcessingInList(id)

\* ------------------------------------------------------------------------
\* The compiler on its own: the live preview pane of the Architect renders
\* compileSFLPrompt(field, tenor, mode, attachments) from whatever the four
\* state values are
\* ------------------------------------------------------------------------
renderPreviewMutReversesInPlace ==
  /\ activeView = "architect"
  /\ attachments' = [i \in 1..Len(attachments) |-> attachments[Len(attachments) + 1 - i]]
  /\ preview' = [rendered |-> TRUE,
                 result |-> compileSFLPrompt(field, tenor, mode, attachments')]
  /\ UNCHANGED <<gatewayVars, personaVars, draftVars, storeVars>>
  /\ UNCHANGED <<activeView, editingPromptId, field, tenor, mode, uploads,
                 nextUuid, prompts>>
renderPreview ==
  /\ activeView = "architect"
  /\ preview' = [rendered |-> TRUE,
                 result |-> compileSFLPrompt(field, tenor, mode, attachments)]
  /\ UNCHANGED <<gatewayVars, personaVars, draftVars, storeVars>>
  /\ UNCHANGED <<activeView, editingPromptId, field, tenor, mode, attachments,
                 uploads, nextUuid, prompts>>

\* Inputs of the compiler: every status, with the analysis absent, empty or
\* present, and a tenor whose targetAudience is missing (a value that is not
\* an SFLTenor)
CompileFields ==
  { DEFAULT_FIELD,
    [topic |-> <<"cats">>, taskType |-> <<"explain">>,
     domainSpecifics |-> <<"biology">>, keywords |-> <<"fur">>] }
CompileModes ==
  { DEFAULT_MODE,
    [outputFormat |-> <<"JSON">>, rhetoricalStructure |-> <<"Essay">>,
     lengthConstraint |-> <<"Short">>, textualDirectives |-> <<"cite">>] }
CompileTenors ==
  { DEFAULT_TENOR,
    Spread(DEFAULT_TENOR, [targetAudience |-> << <<"kids">>, <<"parents">> >>]),
    [aiPersona |-> <<"Helpful Assistant">>, desiredTone |-> <<"Neutral">>,
     interpersonalStance |-> <<"Supportive">>] }
CompileShapes ==
  LET bare == { [id |-> Null, name |-> n[1], type |-> n[2], mimeType |-> << >>,
                 content |-> << >>, status |-> st]
                : n \in { << <<"a", ".txt">>, "text" >>, << <<"b", ".png">>, "image" >> },
                  st \in AttachmentStatuses }
  IN  bare \cup { Spread(a, [analysis |-> t]) : a \in bare, t \in {<< >>, <<"notes">>} }
CompileLists ==
  { [i \in 1..Len(l) |-> Spread(l[i], [id |-> i])] : l \in SeqsUpTo(CompileShapes, MaxAtt) }

InitCompile ==
  /\ activeView = "architect"
  /\ editingPromptId = Null
  /\ field \in CompileFields
  /\ tenor \in CompileTenors
  /\ mode \in CompileModes
  /\ attachments \in CompileLists
  /\ uploads = {}
  /\ nextUuid = 1
  /\ prompts = << >>
  /\ preview = NotRendered
  /\ isAnalyzingPersona = FALSE
  /\ personaCalls = {}
  /\ personaError = NoError
  /\ outcome = NotCalled
  /\ now = 1
  /\ title = UntitledNarrative
  /\ isTesting = FALSE
  /\ testResponse = << >>
  /\ testRuns = {}
  /\ isGenerating = FALSE
  /\ generateCalls = {}
  /\ activePromptId = Null
  /\ preferences = DefaultPreferences

NextCompile == renderPreview

SpecCompile == InitCompile /\ [][NextCompile]_vars

\* ------------------------------------------------------------------------
\* Properties of the compiled string
\* ------------------------------------------------------------------------
Compiled == preview.rendered /\ preview.result.ok
Out == preview.result.value

PositionsOf(s, tok) == {i \in 1..Len(s) : s[i] = tok}
Nth(S, k) == CHOOSE p \in S : Cardinality({q \in S : q < p}) = k - 1

\* The attachment blocks as they stand in the compiled string: the text that
\* follows each '### Attachment: ' up to the blank line before the next block
\* or before the end of the section
BlockStarts == PositionsOf(Out, "### Attachment: ")
BlockCount == Cardinality(BlockStarts)
BlockEnd(k) ==
  IF k < BlockCount THEN Nth(BlockStarts, k + 1) - 3
  ELSE Nth(PositionsOf(Out, "# PERSONA & AUDIENCE (Tenor)"), 1) - 4
BlockText(k) == SubSeq(Out, Nth(BlockStarts, k) + 1, BlockEnd(k))

\* The attachments the claims call eligible, and the block text of one
DoneWithAnalysis ==
  {i \in 1..Len(attachments) :
     /\ attachments[i].status = "done"
     /\ "analysis" \in DOMAIN attachments[i]
     /\ attachments[i].analysis # << >>}
BlockTextOf(a) == a.name \o <<" (", a.type, ")", NL>> \o a.analysis

\* C7: the compiled string has one block per attachment that is 'done' with
\* non-empty analysis, each of these has its block, and an attachment that is
\* 'processing', 'pending' or 'error' (even with analysis), or 'done' with
\* empty analysis, has none.
C7_OnlyDoneWithAnalysis ==
  Compiled =>
    /\ BlockCount = Cardinality(DoneWithAnalysis)
    /\ \A i \in DoneWithAnalysis :
         \E k \in 1..BlockCount : BlockText(k) = BlockTextOf(attachments[i])
    /\ \A i \in (1..Len(attachments)) \ DoneWithAnalysis :
         ( /\ "analysis" \in DOMAIN attachments[i]
           /\ \A j \in DoneWithAnalysis :
                BlockTextOf(attachments[j]) # BlockTextOf(attachments[i]) ) =>
           \A k \in 1..BlockCount : BlockText(k) # BlockTextOf(attachments[i])

C7_Witness ==
  /\ Compiled
  /\ Len(attachments) = 2
  /\ attachments[1].status \in {"processing", "pending", "error"}
  /\ "analysis" \in DOMAIN attachments[1] /\ attachments[1].analysis # << >>
  /\ 2 \in DoneWithAnalysis
  /\ BlockCount = 1

\* C8: the heading '# REFERENCE MATERIAL' stands in the compiled string once
\* when some attachment is 'done' with non-empty analysis and not at all
\* otherwise; the blocks follow it, in the order of their attachments in the
\* input list.
C8_ReferenceSection ==
  Compiled =>
    LET headings == PositionsOf(Out, "# REFERENCE MATERIAL")
        n == Cardinality(DoneWithAnalysis)
    IN  /\ Cardinality(headings) = (IF DoneWithAnalysis # {} THEN 1 ELSE 0)
        /\ BlockCount = n
        /\ \A k \in 1..n :
             /\ BlockText(k) = BlockTextOf(attachments[Nth(DoneWithAnalysis, k)])
             /\ \A h \in headings : h < Nth(BlockStarts, k)

C8_Witness ==
  /\ Compiled
  /\ DoneWithAnalysis = {1, 2}
  /\ attachments[1].name # attachments[2].name
  /\ Cardinality(PositionsOf(Out, "# REFERENCE MATERIAL")) = 1

\* C9: a call of the compiler leaves field, tenor, mode and the attachment
\* list as they were, and a second call on the same four values returns what
\* the first returned.
C9_Step ==
  renderPreview =>
    /\ <<field, tenor, mode, attachments>>' = <<field, tenor, mode, attachments>>
    /\ preview.rendered => preview' = preview

Pos(tok) ==
  IF Cardinality(PositionsOf(Out, tok)) = 1 THEN Nth(PositionsOf(Out, tok), 1) ELSE 0

\* The line that follows a label: the text from the label up to the next
\* line break
LineAfter(label) ==
  LET p == Pos(label)
      ends == {q \in (p + 1)..Len(Out) : Out[q] = NL}
      q == IF ends = {} THEN Len(Out) + 1 ELSE Nth(ends, 1)
  IN  SubSeq(Out, p + 1, q - 1)

\* Headings and labels in the order the claim gives them, each label with the
\* facet value that belongs to it
SectionOrder ==
  << "# CONTEXT (Field)", "**Topic:** ", "**Task:** ", "**Domain:** ", "**Keywords:** ",
     "# PERSONA & AUDIENCE (Tenor)", "**Role:** ", "**Audience:** ", "**Tone:** ",
     "**Stance:** ",
     "# FORMAT & STRUCTURE (Mode)", "**Format:** ", "**Structure:** ", "**Length:** ",
     "**Directives:** ",
     "---", "**INSTRUCTION:**",
     "Based on the framework and reference material above, please execute the task." >>

FacetOf ==
  << <<"**Topic:** ", field.topic>>, <<"**Task:** ", field.taskType>>,
     <<"**Domain:** ", field.domainSpecifics>>, <<"**Keywords:** ", field.keywords>>,
     <<"**Role:** ", tenor.aiPersona>>, <<"**Tone:** ", tenor.desiredTone>>,
     <<"**Stance:** ", tenor.interpersonalStance>>,
     <<"**Format:** ", mode.outputFormat>>,
     <<"**Structure:** ", mode.rhetoricalStructure>>,
     <<"**Length:** ", mode.lengthConstraint>>,
     <<"**Directives:** ", mode.textualDirectives>> >>

\* C11: the compiled string has its sections in the order Context, Reference
\* Material (when present), Persona & Audience, Format & Structure, closing
\* instruction; each facet value stands on the line of its own label inside
\* its own section, and the audience line is the audience list joined by
\* ', ' in list order.
C11_SectionOrder ==
  Compiled =>
    /\ Pos(SectionOrder[1]) = 1
    /\ \A k \in 1..(Len(SectionOrder) - 1) :
         /\ Pos(SectionOrder[k]) > 0
         /\ Pos(SectionOrder[k]) < Pos(SectionOrder[k + 1])
    /\ Pos(SectionOrder[Len(SectionOrder)]) = Len(Out)
    /\ \A h \in PositionsOf(Out, "# REFERENCE MATERIAL") :
         /\ Pos("**Keywords:** ") < h
         /\ h < Pos("# PERSONA & AUDIENCE (Tenor)")
    /\ \A k \in 1..Len(FacetOf) : LineAfter(FacetOf[k][1]) = FacetOf[k][2]
    /\ LET line == LineAfter("**Audience:** ")
       IN  IF tenor.targetAudience = << >> THEN line = << >>
           ELSE Split(line, ", ") = tenor.targetAudience

C11_Witness ==
  /\ Compiled
  /\ Len(tenor.targetAudience) = 2
  /\ tenor.targetAudience[1] # tenor.targetAudience[2]
  /\ field.keywords # << >> /\ field.taskType # field.topic
  /\ mode.textualDirectives # << >>
  /\ DoneWithAnalysis # {}
  /\ Pos("# REFERENCE MATERIAL") > Pos("**Keywords:** ")

\* ------------------------------------------------------------------------
\* Properties of ingestion (processFile as seen in the attachment record)
\* ------------------------------------------------------------------------
RecordOf(list, id) == list[CHOOSE i \in 1..Len(list) : list[i].id = id]

\* The file name ends with the extension, in lower or upper case
HasExtension(file, lower, upper) ==
  file.name # << >> /\ file.name[Len(file.name)] \in {lower, upper}

\* The lines of a text that hold something besides white space
HasText(line) == \E j \in 1..Len(line) : line[j] \notin Whitespace
TextLines(text) == SelectSeq(Split(text, NL), HasText)

\* The lines of an analysis ("" has none)
AnalysisLines(analysis) == IF analysis = << >> THEN << >> ELSE Split(analysis, NL)

IsMarkerFor(out, line) ==
  \E n \in 1..(Len(line) + Len(out)) :
    out = <<"[Line ", ToString(n), "] Invalid JSON: ">> \o line

C12_Record(file, rec) ==
  /\ rec.status = "done"
  /\ "errorMessage" \notin DOMAIN rec
  /\ \/ rec.analysis = <<"Error processing JSONL: ">> \o NotReadableError.message
     \/ LET in == TextLines(file.content)
            out == AnalysisLines(rec.analysis)
        IN  /\ Len(out) = Len(in)
            /\ \A i \in 1..Len(in) :
                 LET json == JSONParse(in[i])
                 IN  IF json.ok THEN out[i] = JSONStringify(json.value)
                     ELSE IsMarkerFor(out[i], in[i])

C12_Step ==
  \A u \in uploads :
    (Settles(u) /\ HasExtension(u.files[u.k], ".jsonl", ".JSONL")) =>
      C12_Record(u.files[u.k], RecordOf(attachments', u.id))

\* C12: a .jsonl file whose processFile call settles ends 'done', never
\* 'error'; its analysis has one line per input line that is not blank, in
\* input order: the re-serialized JSON of a line that parses, the
\* '[Line N] Invalid JSON: <raw line>' marker of a line that does not (when
\* the file cannot be read at all the analysis is the read error instead).
C12_JSONLPartialSuccess == [][C12_Step]_vars

C12_Witness ==
  \E i \in 1..Len(attachments) :
    /\ attachments[i].name = MixedJsonlFile.name
    /\ attachments[i].status = "done"
    /\ Len(AnalysisLines(attachments[i].analysis)) = 3
    /\ AnalysisLines(attachments[i].analysis)[1] = <<"1">>
    /\ IsMarkerFor(AnalysisLines(attachments[i].analysis)[2], <<"oops">>)
    /\ AnalysisLines(attachments[i].analysis)[3] = <<"{", "}">>

C13_Step ==
  \A u \in uploads :
    Settles(u) =>
      LET file == u.files[u.k]
          rec == RecordOf(attachments', u.id)
      IN  /\ (HasExtension(file, ".json", ".JSON") /\ ~JSONParse(file.content).ok) =>
               /\ rec.status = "done"
               /\ rec.analysis # << >>
               /\ Head(rec.analysis) = "Error parsing JSON: "
          /\ ( /\ file.type = DocxMime
               /\ ~HasExtension(file, ".json", ".JSON")
               /\ ~HasExtension(file, ".jsonl", ".JSONL") ) =>
               /\ rec.status = "done"
               /\ rec.analysis # << >>
               /\ rec.analysis \in {file.content, <<"Empty document.">>}

\* C13: a .json file with invalid content, and a word-processing document
\* (whether its text is extracted, the extraction throws or it yields
\* nothing), ends 'done' with a non-empty analysis that describes the
\* problem, never 'error'.
C13_DegradedIsDone == [][C13_Step]_vars

C13_Witness ==
  /\ \E i \in 1..Len(attachments) :
       /\ attachments[i].name = BadJsonFile.name
       /\ attachments[i].status = "done"
       /\ Head(attachments[i].analysis) = "Error parsing JSON: "
  /\ \E i \in 1..Len(attachments) :
       /\ attachments[i].name = DocxFile.name
       /\ attachments[i].status = "done"
       /\ attachments[i].analysis = <<"Empty document.">>

\* The file takes the provider route: an audio, video, image or PDF MIME type
\* and a name that is neither .json nor .jsonl
ProviderRoute(file) ==
  /\ ~HasExtension(file, ".json", ".JSON")
  /\ ~HasExtension(file, ".jsonl", ".JSONL")
  /\ file.type # << >>
  /\ \/ Head(file.type) \in {"audio/", "video/", "image/"}
     \/ file.type = <<"application/", "pdf">>

C14_Step ==
  \A u \in uploads :
    ProviderRoute(u.files[u.k]) =>
      \A e \in ProviderErrors :
        /\ u.mounted => Raised(e) \in processFile(u.files[u.k])
        /\ settleUpload(u, Raised(e)) =>
             LET rec == RecordOf(attachments', u.id)
             IN  /\ rec.status = "error"
                 /\ "errorMessage" \in DOMAIN rec /\ rec.errorMessage # << >>
                 /\ "analysis" \notin DOMAIN rec

\* C14: when the provider call made for an audio, video, image or PDF file
\* fails, processFile rejects and the record of the file becomes 'error' with
\* an error message and no analysis, not 'done'.
C14_ProviderFailureIsError == [][C14_Step]_vars

C14_Witness ==
  \E i \in 1..Len(attachments) :
    /\ attachments[i].name = AudioFile.name
    /\ attachments[i].status = "error"
    /\ attachments[i].errorMessage = <<"Analysis failed">>
    /\ "analysis" \notin DOMAIN attachments[i]

\* The strategy the routing rule of the claim gives a file, and what each
\* strategy can settle to
StrategyOf(file) ==
  IF HasExtension(file, ".json", ".JSON") THEN "json"
  ELSE IF HasExtension(file, ".jsonl", ".JSONL") THEN "jsonl"
  ELSE IF file.type = DocxMime THEN "docx"
  ELSE IF file.type # << >> /\ Head(file.type) = "audio/" THEN "audio"
  ELSE IF file.type # << >> /\ Head(file.type) = "video/" THEN "video"
  ELSE IF file.type # << >> /\ Head(file.type) = "image/" THEN "image"
  ELSE IF file.type = <<"application/", "pdf">> THEN "pdf"
  ELSE "text"

StrategyOutcomes(file) ==
  LET unread == {Raised(NotReadableError)}
  IN  CASE StrategyOf(file) = "json" -> processJSON(file)
        [] StrategyOf(file) = "jsonl" -> processJSONL(file)
        [] StrategyOf(file) = "docx" ->
             { Returned([analysis |-> file.content]),
               Returned([analysis |-> <<"Empty document.">>]) }
        [] StrategyOf(file) = "audio" -> unread \cup processAudio
        [] StrategyOf(file) = "video" -> unread \cup processVideo
        [] StrategyOf(file) = "image" -> unread \cup processImage
        [] StrategyOf(file) = "pdf" -> unread \cup processPDF
        [] OTHER -> processTextFile(file)

\* The record shows the settlement r
Shows(rec, r) ==
  IF r.ok THEN rec.status = "done" /\ rec.analysis = r.value.analysis
  ELSE rec.status = "error" /\ "analysis" \notin DOMAIN rec

C15_Step ==
  \A u \in uploads :
    Settles(u) =>
      \E r \in StrategyOutcomes(u.files[u.k]) : Shows(RecordOf(attachments', u.id), r)

\* C15: the record of a file settles to an outcome of the one strategy that
\* the priority .json name, .jsonl name, word-processing MIME type,
\* audio / video / image / PDF MIME type, plain text gives it; the name test
\* ignores letter case and comes before the MIME type.
C15_RoutingPriority == [][C15_Step]_vars

C15_Witness ==
  /\ \E i \in 1..Len(attachments) :
       /\ attachments[i].name = UpperJsonFile.name
       /\ attachments[i].mimeType = <<"image/", "png">>
       /\ attachments[i].status = "done"
       /\ attachments[i].analysis = <<"[", NL, " ", " ", "1", NL, "]">>
  /\ \E i \in 1..Len(attachments) :
       /\ attachments[i].name = DocxNamedFile.name
       /\ attachments[i].status = "done"
       /\ attachments[i].analysis = DocxNamedFile.content

\* ------------------------------------------------------------------------
\* Properties of the gateway capabilities
\* ------------------------------------------------------------------------
\* The listing fails at some point: models.list() throws, or the iteration
\* of its pager does
ListingFails(listing) == ~listing.ok \/ listing.value.fails

\* C16: listModels returns and never throws; when models.list() or the
\* iteration of its result fails, what it returns is the list of the three
\* fallback names 'gemini-3-pro-preview', 'gemini-2.5-flash',
\* 'gemini-2.5-flash-thinking-preview-09-2025' in this order, with none of
\* the names collected before the failure.
C16_ListModelsFallback ==
  Done("listModels") =>
    /\ outcome.result.ok
    /\ ListingFails(outcome.provider) =>
         outcome.result.value =
           << <<"gemini-3-pro-preview">>, <<"gemini-2.5-flash">>,
              <<"gemini-2.5-flash-thinking-preview-09-2025">> >>

C16_Witness ==
  /\ Done("listModels")
  /\ outcome.provider.ok
  /\ outcome.provider.value.fails
  /\ \E i \in 1..Len(outcome.provider.value.items) :
       /\ "name" \in DOMAIN outcome.provider.value.items[i]
       /\ Includes(outcome.provider.value.items[i].name, "gemini")
  /\ Len(outcome.result.value) = 3

\* The provider call of a generate capability threw the error e
ProviderThrew(e) ==
  /\ outcome.done
  /\ outcome.op \in {"executePrompt", "executePromptStream", "generateSFLFromGoal"}
  /\ IF outcome.provider.ok
     THEN /\ outcome.op = "executePromptStream"
          /\ outcome.provider.value.fails = e
     ELSE outcome.provider.error = e

\* C17: when the provider throws during executePrompt, executePromptStream
\* or generateSFLFromGoal, the capability throws that same error to its
\* caller and does not return normally.
C17_ProviderErrorSurfaces ==
  \A e \in ProviderErrors :
    ProviderThrew(e) => (~outcome.result.ok /\ outcome.result.error = e)

\* The part a file contributes to the request of analyzeFilesForTenor: the
\* inline data of an image, audio or PDF file, or the labelled text of
\* another file that yields text
IsPartOf(part, file) ==
  IF IsBinaryPart(file.type)
  THEN part = [inlineData |-> [mimeType |-> file.type, data |-> file.content]]
  ELSE \E t \in extractTextFromFile(file) \ {<< >>} :
         part = [text |-> <<"Content from ">> \o file.name \o <<":", NL>> \o t]

\* The files (by index) that contribute a part: every image, audio or PDF
\* file, and the other files but those left out because they yielded ""
Contributors(files) ==
  { S \in SUBSET (1..Len(files)) :
      /\ \A i \in 1..Len(files) : IsBinaryPart(files[i].type) => i \in S
      /\ \A i \in (1..Len(files)) \ S : << >> \in extractTextFromFile(files[i])
      /\ \A i \in S : IsBinaryPart(files[i].type)
                        \/ extractTextFromFile(files[i]) # {<< >>} }

\* C18: analyzeFilesForTenor returns null with no provider call when no
\* file contributes a part; otherwise it issues one provider call whose
\* parts are one per contributing file, in file order, and then the
\* instruction part.
C18_NullOrOneCall ==
  Done("analyzeFilesForTenor") =>
    \E S \in Contributors(outcome.files) :
      IF S = {}
      THEN /\ outcome.calls = << >>
           /\ outcome.result = Returned(NoObject)
      ELSE /\ Len(outcome.calls) = 1
           /\ LET parts == outcome.calls[1].parts
              IN  /\ Len(parts) = Cardinality(S) + 1
                  /\ \A k \in 1..Cardinality(S) :
                       IsPartOf(parts[k], outcome.files[Nth(S, k)])
                  /\ parts[Len(parts)] = [text |-> <<PersonaInstruction>>]

\* ------------------------------------------------------------------------
\* Properties of the persona analysis
\* ------------------------------------------------------------------------
C19_Step ==
  \A c \in personaCalls :
    \A run \in analyzeFilesForTenor(c.files, "gemini-3-pro-preview") :
      ( /\ settlePersona(c, run)
        /\ "ok" \in DOMAIN run.reply
        /\ ~run.reply.ok ) =>
          /\ IF run.reply.error = TokenCountError
             THEN /\ personaError' # run.reply.error
                  /\ "message" \in DOMAIN personaError'
                  /\ Head(personaError'.message)
                       = "The uploaded files exceed the token limit for "
             ELSE personaError' = run.reply.error
          /\ tenor' = tenor
          /\ ~isAnalyzingPersona'

\* C19: when the provider call of analyzeFilesForTenor throws a token-limit
\* error, handlePersonaFileUpload receives the 'files exceed the token limit'
\* error in its place; when it throws any other error the handler receives
\* that error as it is; either way the tenor of the editor stays what it was
\* and isAnalyzingPersona is false again.
C19_PersonaFailure == [][C19_Step]_vars

C19_Witness ==
  /\ activeView = "architect"
  /\ personaCalls = {}
  /\ ~isAnalyzingPersona
  /\ personaError = TokenLimitError("gemini-3-pro-preview")
  /\ Len(tenor.targetAudience) = 2

\* ------------------------------------------------------------------------
\* Properties of the store
\* ------------------------------------------------------------------------
\* p after { ...p, ...updates } with updatedAt set to the time t
UpdatedFrom(q, p, updates, t) ==
  /\ DOMAIN q = DOMAIN p \cup DOMAIN updates \cup {"updatedAt"}
  /\ q.updatedAt = t
  /\ \A key \in DOMAIN q \ {"updatedAt"} :
       q[key] = IF key \in DOMAIN updates THEN updates[key] ELSE p[key]

C20_Step ==
  \A id \in 1..MaxUuid, updates \in StoreUpdates :
    callUpdatePrompt(id, updates) =>
      /\ Len(prompts') = Len(prompts)
      /\ \A i \in 1..Len(prompts) :
           IF prompts[i].id = id
           THEN UpdatedFrom(prompts'[i], prompts[i], updates, now)
           ELSE prompts'[i] = prompts[i]
      /\ (\A i \in 1..Len(prompts) : prompts[i].id # id) => prompts' = prompts

\* C20: updatePrompt(id, updates) leaves the list as long as it was; the
\* prompt with that id stays at its index, takes the properties of updates
\* and gets updatedAt set to the current time, also when updates has an
\* updatedAt of its own; every other prompt is as it was; with no prompt of
\* that id the list is as it was.
C20_UpdateInPlace == [][C20_Step]_vars

C20_Witness ==
  /\ Len(prompts) = 2
  /\ now = 2
  /\ prompts[2].createdAt = 1 /\ prompts[2].updatedAt = 2
  /\ prompts[2].compiledPrompt = <<"edited">>
  /\ prompts[1].updatedAt = 1

\* ------------------------------------------------------------------------
\* Properties of the store's deletePrompt
\* ------------------------------------------------------------------------
\* The indices of the prompts of list that deletePrompt(id) keeps
KeptBy(list, id) == {i \in 1..Len(list) : list[i].id # id}

C21_Step ==
  \A id \in 1..MaxUuid :
    callDeletePrompt(id) =>
      LET kept == KeptBy(prompts, id)
      IN  /\ Len(prompts') = Cardinality(kept)
          /\ \A i \in kept :
                prompts'[Cardinality({j \in kept : j <= i})] = prompts[i]
          /\ \A i \in 1..Len(prompts') : prompts'[i].id # id
          /\ activePromptId' = IF activePromptId = id THEN Null ELSE activePromptId
          /\ preferences' = preferences

\* C21: deletePrompt(id) removes exactly the prompts with that id (and with
\* them their attachments, which live inside the prompt), keeps every other
\* prompt as it was and in the same relative order, sets activePromptId to
\* null when it was id and leaves it alone otherwise, and changes no
\* preference.
C21_DeleteFrame == [][C21_Step]_vars

\* Two prompts were added, the first one added has been deleted while the
\* other was active and the theme was dark
C21_Witness ==
  /\ nextUuid = 3
  /\ Len(prompts) = 1
  /\ prompts[1].id = 2
  /\ activePromptId = 2
  /\ preferences.theme = "dark"

\* ------------------------------------------------------------------------
\* Properties of an editing session
\* ------------------------------------------------------------------------
C22_Step ==
  prompts' # prompts => (handleSave \/ \E id \in 1..MaxUuid : deletePrompt(id))

\* C22: the store's prompt list changes only in a step of handleSave or of
\* deletePrompt: setting the topic or the title, attaching a file, removing
\* an attachment, the settlement of processFile, every step of a test
\* execution and of a persona analysis leave it as it was.
C22_OnlySaveOrDelete == [][C22_Step]_vars

\* A stored prompt, and an editor reopened on it that differs from it in
\* title, topic, persona and attachments, with a test response displayed
C22_Witness ==
  /\ activeView = "architect"
  /\ Len(prompts) = 1
  /\ editingPromptId = prompts[1].id
  /\ title # prompts[1].title
  /\ field # prompts[1].sflField
  /\ tenor # prompts[1].sflTenor
  /\ attachments # prompts[1].attachments
  /\ testResponse = <<"an", "swer">>
  /\ ~isTesting

\* ------------------------------------------------------------------------
\* Properties of the stored prompts
\* ------------------------------------------------------------------------
Recompiled(p) == compileSFLPrompt(p.sflField, p.sflTenor, p.sflMode, p.attachments)

\* C23: every prompt in the store has the compiledPrompt that
\* compileSFLPrompt gives for its own sflField, sflTenor, sflMode and
\* attachments, after every sequence of creates, edits, saves and deletes.
C23_CacheCoherent ==
  \A i \in 1..Len(prompts) : Recompiled(prompts[i]) = Returned(prompts[i].compiledPrompt)

\* A prompt saved again from a reopened editor, with a topic, an audience
\* and an ingested attachment that the defaults do not have
C23_Witness ==
  /\ activeView = "library"
  /\ Len(prompts) = 1
  /\ prompts[1].sflField.topic = <<"cats">>
  /\ prompts[1].sflTenor.targetAudience # << >>
  /\ \E k \in 1..Len(prompts[1].attachments) : prompts[1].attachments[k].status = "done"
  /\ prompts[1].compiledPrompt # DefaultPrompt

\* ------------------------------------------------------------------------
\* Properties of handleTest
\* ------------------------------------------------------------------------
RECURSIVE Flatten(_)
Flatten(chunks) == IF chunks = << >> THEN << >> ELSE Head(chunks) \o Flatten(Tail(chunks))

C24_Step ==
  /\ isTesting' <=> \E r \in testRuns' : r.mounted
  /\ \A r \in testRuns' : r.mounted => testResponse' = Flatten(Prefix(r.run.yielded, r.k))
  /\ \A r \in testRuns :
       (r.mounted /\ testEnd(r)) =>
         /\ ~isTesting'
         /\ testResponse' = IF r.run.ok THEN Flatten(r.run.yielded) ELSE TestFailed

\* C24: the editor is busy (isTesting) exactly while a test execution is in
\* flight, so every execution that ends, by the end of its stream or by a
\* throw at its start or after some chunks, leaves isTesting false; while
\* it runs the displayed response is the chunks received so far of this
\* execution alone, in order; when it ends well the response is all its
\* chunks in order, and when it fails the response is the error string.
C24_TestExecution == [][C24_Step]_vars

\* An execution of an edited prompt has ended well: the response is its two
\* chunks and nothing else
C24_Witness ==
  /\ ~isTesting
  /\ testRuns = {}
  /\ testResponse = <<"an", "swer">>
  /\ field.topic = <<"cats">>

\* ------------------------------------------------------------------------
\* Properties of the type tag
\* ------------------------------------------------------------------------
\* The rules in the order of their priority, for a record's MIME type and
\* name, and the tag each one gives
TagRules(a) ==
  << StartsWith(a.mimeType, "audio/"),
     StartsWith(a.mimeType, "video/"),
     StartsWith(a.mimeType, "image/"),
     a.mimeType = <<"application/", "pdf">>,
     \/ \E k \in 1..Len(a.mimeType) : a.mimeType[k] \in {"wordprocessingml", "text/", "json"}
     \/ (a.name # << >> /\ a.name[Len(a.name)] = ".md") >>
Tags == <<"audio", "video", "image", "pdf", "text">>

\* C25: the tag of an attachment is the tag of the first rule, in the order
\* audio, video, image, pdf, document/text/json heuristics, that its MIME
\* type or name matches: a word-processing, text/ or json MIME type and a
\* name ending in .md give 'text' when no earlier rule matches; the tag is
\* 'other' exactly when no rule matches.
C25_TagPriority ==
  \A i \in 1..Len(attachments) :
    LET a == attachments[i]
        hits == {k \in 1..5 : TagRules(a)[k]}
    IN  IF hits = {} THEN a.type = "other"
        ELSE a.type = Tags[CHOOSE k \in hits : \A h \in hits : k <= h]

\* An audio file named .md is tagged audio beside a .md file without a MIME
\* type that is tagged text
C25_Witness ==
  /\ Len(attachments) = 2
  /\ attachments[1].name = <<"song", ".md">> /\ attachments[1].type = "audio"
  /\ attachments[2].name = <<"notes", ".md">> /\ attachments[2].type = "text"

ProcessingInStore(id) ==
  \E i \in 1..Len(prompts) :
    \E k \in 1..Len(prompts[i].attachments) :
      /\ prompts[i].attachments[k].id = id
      /\ prompts[i].attachments[k].status = "processing"

\* C26: an attachment that is stored with status 'processing' eventually is
\* stored with 'done' or 'error' (or is no longer stored), given that every
\* ingestion call settles.
C26_StoredEventuallySettled ==
  \A id \in 1..MaxUuid : ProcessingInStore(id) ~> ~ProcessingInStore(id)

\* ------------------------------------------------------------------------
\* Properties of handleSave
\* ------------------------------------------------------------------------
C27_Step ==
  (editingPromptId # Null /\ handleSave) =>
    \A i \in 1..Len(prompts) :
      prompts[i].id = editingPromptId =>
        /\ prompts'[i].id = prompts[i].id
        /\ prompts'[i].createdAt = prompts[i].createdAt

\* C27: handleSave of an editor opened on a stored prompt leaves that
\* prompt's id and createdAt as they were stored.
C27_EditKeepsIdentity == [][C27_Step]_vars

C28_Step ==
  /\ \A i, j \in 1..Len(prompts') : prompts'[i].id = prompts'[j].id => i = j
  /\ (editingPromptId = Null /\ handleSave) =>
       /\ Len(prompts') = Len(prompts) + 1
       /\ Tail(prompts') = prompts
       /\ prompts'[1].id \notin IdsOf(prompts)
  /\ (editingPromptId # Null /\ handleSave) =>
       /\ Len(prompts') = Len(prompts)
       /\ \A i \in 1..Len(prompts) : prompts'[i].id = prompts[i].id

\* C28: the ids of the stored prompts are pairwise distinct; a create-save
\* makes the list one longer, with the new prompt first and the others
\* after it as they were; an edit-save leaves the length and the position
\* of every id as they were.
C28_DistinctIdsAndLength == [][C28_Step]_vars

\* Two prompts were created at time 1, the second in front of the first,
\* and the first was saved again from a reopened editor at time 2
C28_Witness ==
  /\ Len(prompts) = 2
  /\ prompts[1].id = 2 /\ prompts[1].updatedAt = 1
  /\ prompts[2].id = 1 /\ prompts[2].updatedAt = 2
  /\ prompts[2].sflField.topic = <<"cats">>

\* ------------------------------------------------------------------------
\* Properties of the provider results stored in the editor
\* ------------------------------------------------------------------------
\* C29: in every state of the open editor, also after handleAutoGenerate or
\* handlePersonaFileUpload has stored a provider result, compileSFLPrompt
\* returns for the editor's field, tenor, mode and attachments.
C29_PreviewCompiles ==
  activeView = "architect" => compileSFLPrompt(field, tenor, mode, attachments).ok

\* ------------------------------------------------------------------------
\* Properties of the JSONL line markers
\* ------------------------------------------------------------------------
\* The marker of line n of a file, for a line that holds text and does not
\* parse
FileLineMarker(file, n) ==
  LET all == Split(file.content, NL)
  IN  <<"[Line ", ToString(n), "] Invalid JSON: ">> \o all[n]

MarkedLines(file) ==
  {n \in 1..Len(Split(file.content, NL)) :
     /\ HasText(Split(file.content, NL)[n])
     /\ ~JSONParse(Split(file.content, NL)[n]).ok}

C30_Step ==
  \A u \in uploads :
    (Settles(u) /\ HasExtension(u.files[u.k], ".jsonl", ".JSONL")) =>
      LET file == u.files[u.k]
          out == AnalysisLines(RecordOf(attachments', u.id).analysis)
      IN  \A i \in 1..Len(out) :
            (out[i] # << >> /\ Head(out[i]) = "[Line ") =>
              \E n \in MarkedLines(file) : out[i] = FileLineMarker(file, n)

\* C30: every '[Line N] Invalid JSON: <raw line>' marker in the analysis of
\* a .jsonl file names the 1-based number N that the raw line has among all
\* the lines of the file, blank ones counted.
C30_MarkerIsFileLine == [][C30_Step]_vars

====
